---- MODULE Spec2Model ----
(***************************************************************************)
(* Model of go-translation-api: the DataStore (datastore/datastore.go,     *)
(* latest revision, lines 382-922), its SQLite and PostgreSQL adapters     *)
(* (schema, migrations, constraints) and the XLIFF codec.                  *)
(*                                                                         *)
(* Names that the code splits on "." (domain names, language codes, file   *)
(* names) are sequences of tokens in which "." is a token of its own, so   *)
(* that strings.Split can be computed.  String names and contents are      *)
(* opaque values.                                                          *)
(***************************************************************************)
EXTENDS Integers, Sequences, FiniteSets, TLC

VARIABLES driver, db, ds, files, last

\* the server: the channel `export`, the handlers that have answered and
\* stand at `export <- dName`, the domain the export goroutine has taken,
\* the answer written last, and two counters of what happened: the changes
\* answered with success and the exports run
VARIABLES export, sending, worker, responses, committed, runs

server == <<export, sending, worker, responses, committed, runs>>

\* a second database, on PostgreSQL, that is given the calls made on a
\* SQLite database one for one
VARIABLE twin

\* what runs at the same time as other things: the requests that are in
\* the middle of their DataStore call, the import command in the middle of
\* its directory, and the files that the exports have open
VARIABLES requests, importer, writers

concurrent == <<requests, importer, writers>>

vars == <<driver, db, ds, files, last, export, sending, worker, responses,
          committed, runs, twin, requests, importer, writers>>

(* ---------------------------------------------------------------- bounds *)
\* cap on the rows ever inserted into table "string" between two DROPs
MaxStrings == 2
\* cap on the rows ever inserted into table "translation" between two DROPs
MaxTranslations == 2
\* cap on the rows ever inserted into table "language" by CreateLanguage
MaxNewLanguages == 1

\* the handlers that may be between their answer and `export <- dName` at
\* one time, the changes a behaviour makes, and the capacity of the
\* channel `export` (make(chan string, 100), cut down so that it fills)
MaxInFlight == 1
MaxChanges == 2
ExportCapacity == 1

\* the requests one client sends, and the rows that the requests served at
\* the same time may add to a table
MaxServed == 1
MaxRacing == 2

(* ---------------------------------------------------------------- inputs *)
DOT == "."
\* language codes requests may name: a seeded one, and one with a dot in it
\* that does not exist until a request creates it
Codes == {<<"en">>, <<"en", DOT, "us">>}
\* one domain name: the domain has no row until a file of it is imported
DomainNames == {<<"h">>}
StringNames == {"s", "t"}
Contents == {"x", "y"}

(* ---------------------------------------------------------------- errors *)
Nil == "nil"
ErrNoRows == "sql: no rows in result set"
ErrAlreadyExists == "Item already exists"
ErrLanguageMissing == "Language does not exist in database"
ErrSql == "sql error"
ErrXml == "XML syntax error"
ErrExec == "exec failed"
ErrFilename == "Domain name or language missing from filename"
ErrTargetLang == "Found language but expected other based on filename"
ErrTooManyRows == "too many rows in schema_migrations table"
ErrBadPattern == "syntax error in pattern"

\* no domain name: an idle handler, an idle export goroutine
NoDomain == <<>>
NoResponse == [status |-> 0, body |-> "", handler |-> 0]
Handlers == 1..MaxInFlight

\* Serve before the first request
Idle ==
    /\ export = <<>>
    /\ sending = [h \in Handlers |-> NoDomain]
    /\ worker = NoDomain
    /\ responses = NoResponse
    /\ committed = 0
    /\ runs = 0

\* the requests that may be in their DataStore call at one time, and the
\* exports that may run at one time: the goroutine of Serve and one
\* request
Clients == {1, 2}
ExportWorker == "goroutine"
ExportRequest == "handler"
Exporters == {ExportWorker, ExportRequest}

NoRequest == [pc |-> "idle", served |-> 0]
NotImporting == [at |-> 0]
NoFile == <<>>
NotExporting == [pc |-> "idle", open |-> NoFile, xliffs |-> <<>>]

\* no request in its call, no import running, no export running
Quiet ==
    /\ requests = [p \in Clients |-> NoRequest]
    /\ importer = NotImporting
    /\ writers = [e \in Exporters |-> NotExporting]

(* ------------------------------------------------------------- utilities *)
Min(S) == CHOOSE x \in S : \A y \in S : x <= y
Range(f) == {f[i] : i \in DOMAIN f}
RowWithMinId(rows) == CHOOSE r \in rows : \A q \in rows : r.id <= q.id

(* ------------------------------------------------------------ the schema *)
Sqlite3 == "sqlite3"
Postgresql == "postgres"
Drivers == {Sqlite3, Postgresql}

\* Adapter.SupportsLastInsertId
SupportsLastInsertId(drv) == drv = Sqlite3

\* the rows seeded by up script 1 (the list the two back-ends share cut to
\* its first two entries; the PostgreSQL list also holds Dutch and, of the
\* entries the SQLite list does not have, Dutch (BE))
SeedLanguages(drv) ==
    IF drv = Sqlite3
    THEN << [name |-> "German", code |-> <<"de">>],
            [name |-> "English", code |-> <<"en">>] >>
    ELSE << [name |-> "German", code |-> <<"de">>],
            [name |-> "English", code |-> <<"en">>],
            [name |-> "Dutch", code |-> <<"nl">>],
            [name |-> "Dutch (BE)", code |-> <<"nl-be">>] >>

\* a variant of down() that knows the first script only
DownLenShort(drv) == 1

\* number of scripts returned by up() and by down()
DownLen(drv) == IF drv = Sqlite3 THEN 2 ELSE 3
UpLen(drv) == IF drv = Sqlite3 THEN 2 ELSE 1

\* UNIQUE constraints of the schema: domain.name on both back-ends;
\* language.code, string(name, domain_id), translation(language_id,
\* string_id) on PostgreSQL only
UniqueLanguageCode(drv) == drv = Postgresql
UniqueStringName(drv) == drv = Postgresql
UniqueTranslation(drv) == drv = Postgresql

EmptySeq == [domain |-> 0, language |-> 0, string |-> 0, translation |-> 0]

\* a database without any table
EmptyDb ==
    [schema_migrations |-> <<>>, tables |-> FALSE,
     domain |-> {}, language |-> {}, string |-> {}, translation |-> {},
     seq |-> EmptySeq]

\* datastore.New: empty caches.  Every request (handleWithDatastore) and
\* every command (getDatastore, importer.Import) works on a DataStore of its
\* own, so each operation below starts from this value; the variable ds
\* holds the caches of the instance that served the last operation
NewDataStore == [domainCache |-> <<>>, stringCache |-> <<>>]


(* ------------------------------------------------------- SQL statements *)
\* the UNIQUE and REFERENCES constraints an INSERT into `table` must meet
\* (SQLite enforces REFERENCES because PostCreate sets foreign_keys = ON)
ConstraintsHold(drv, d, table, row) ==
    CASE table = "domain" ->
           ~\E r \in d.domain : r.name = row.name
      [] table = "language" ->
           UniqueLanguageCode(drv) => ~\E r \in d.language : r.code = row.code
      [] table = "string" ->
           /\ \E r \in d.domain : r.id = row.domain_id
           /\ UniqueStringName(drv) =>
                ~\E r \in d.string :
                    r.name = row.name /\ r.domain_id = row.domain_id
      [] table = "translation" ->
           /\ \E r \in d.language : r.id = row.language_id
           /\ \E r \in d.string : r.id = row.string_id
           /\ UniqueTranslation(drv) =>
                ~\E r \in d.translation :
                    /\ r.language_id = row.language_id
                    /\ r.string_id = row.string_id

\* INSERT INTO table ... : the new row gets the next value of the table's
\* AUTOINCREMENT / SERIAL counter; a PostgreSQL sequence advances even
\* when the INSERT is rejected
SqlInsert(drv, d, table, row) ==
    LET id == d.seq[table] + 1 IN
    IF ~d.tables THEN [db |-> d, id |-> 0, err |-> ErrSql]
    ELSE IF ~ConstraintsHold(drv, d, table, row)
    THEN [db |-> IF drv = Postgresql
                 THEN [d EXCEPT !.seq[table] = id] ELSE d,
          id |-> 0, err |-> ErrSql]
    ELSE [db |-> [d EXCEPT ![table] = @ \cup {[row EXCEPT !.id = id]},
                           !.seq[table] = id],
          id |-> id, err |-> Nil]

\* insertUsingLastInsertId: Exec, then result.LastInsertId()
insertUsingLastInsertId(drv, d, table, row) == SqlInsert(drv, d, table, row)

\* insertUsingQueryRow: QueryRow(INSERT ... RETURNING id).Scan(&id)
insertUsingQueryRow(drv, d, table, row) == SqlInsert(drv, d, table, row)

\* DataStore.insert
insert(drv, d, table, row) ==
    IF SupportsLastInsertId(drv)
    THEN insertUsingLastInsertId(drv, d, table, row)
    ELSE insertUsingQueryRow(drv, d, table, row)

\* a variant of the delete on a schema without ON DELETE CASCADE
SqlDeleteStringNoCascade(d, id) ==
    [d EXCEPT !.string = {r \in @ : r.id # id}]

\* DELETE FROM string WHERE id = ? ; ON DELETE CASCADE removes the
\* translations that reference the string
SqlDeleteString(d, id) ==
    [d EXCEPT !.string = {r \in @ : r.id # id},
              !.translation = {r \in @ : r.string_id # id}]

\* a variant of the delete whose WHERE names string_id
SqlDeleteTranslationsOfString(d, id) ==
    [d EXCEPT !.translation = {r \in @ : r.string_id # id}]

\* DELETE FROM translation WHERE id = ?
SqlDeleteTranslation(d, id) ==
    [d EXCEPT !.translation = {r \in @ : r.id # id}]

(* -------------------------------------------------- DataStore internals *)
NoLanguage == [id |-> 0, name |-> "", code |-> <<>>]

\* DataStore.getLanguage: a missing code gives an error of its own, not
\* sql.ErrNoRows
getLanguage(d, code) ==
    LET rows == {r \in d.language : r.code = code} IN
    IF ~d.tables THEN [l |-> NoLanguage, err |-> ErrSql]
    ELSE IF rows = {} THEN [l |-> NoLanguage, err |-> ErrLanguageMissing]
    ELSE [l |-> RowWithMinId(rows), err |-> Nil]

\* a variant of getDomainId that reports a name without row as found
getDomainIdNoMiss(d, c, name) ==
    LET rows == {r \in d.domain : r.name = name} IN
    IF name \in DOMAIN c.domainCache
    THEN [id |-> c.domainCache[name], err |-> Nil, ds |-> c]
    ELSE IF ~d.tables THEN [id |-> 0, err |-> ErrSql, ds |-> c]
    ELSE IF rows = {} THEN [id |-> 0, err |-> Nil, ds |-> c]
    ELSE LET id == RowWithMinId(rows).id IN
         [id |-> id, err |-> Nil,
          ds |-> [c EXCEPT !.domainCache = (name :> id) @@ @]]

\* DataStore.getDomainId: the cache first, then the database; a hit from
\* the database is cached
getDomainId(d, c, name) ==
    LET rows == {r \in d.domain : r.name = name} IN
    IF name \in DOMAIN c.domainCache
    THEN [id |-> c.domainCache[name], err |-> Nil, ds |-> c]
    ELSE IF ~d.tables THEN [id |-> 0, err |-> ErrSql, ds |-> c]
    ELSE IF rows = {} THEN [id |-> 0, err |-> ErrNoRows, ds |-> c]
    ELSE LET id == RowWithMinId(rows).id IN
         [id |-> id, err |-> Nil,
          ds |-> [c EXCEPT !.domainCache = (name :> id) @@ @]]

\* DataStore.createDomain
createDomain(drv, d, name) ==
    insert(drv, d, "domain", [id |-> 0, name |-> name])

\* DataStore.createOrGetDomain: a created domain is not cached
createOrGetDomain(drv, d, c, name) ==
    LET g == getDomainId(d, c, name) IN
    IF g.err = ErrNoRows
    THEN LET i == createDomain(drv, d, name) IN
         [id |-> i.id, err |-> i.err, db |-> i.db, ds |-> g.ds]
    ELSE [id |-> g.id, err |-> g.err, db |-> d, ds |-> g.ds]

\* DataStore.getStringId
getStringId(d, name, domainId) ==
    LET rows == {r \in d.string : r.name = name /\ r.domain_id = domainId} IN
    IF ~d.tables THEN [id |-> 0, err |-> ErrSql]
    ELSE IF rows = {} THEN [id |-> 0, err |-> ErrNoRows]
    ELSE [id |-> RowWithMinId(rows).id, err |-> Nil]

\* DataStore.createString
createString(drv, d, name, domainId) ==
    insert(drv, d, "string", [id |-> 0, name |-> name, domain_id |-> domainId])

\* a variant of createOrGetString that inserts without looking the name up
createStringUnseen(drv, d, name, domainId) ==
    createString(drv, d, name, domainId)

\* DataStore.createOrGetString
createOrGetString(drv, d, name, domainId) ==
    LET g == getStringId(d, name, domainId) IN
    IF g.err = ErrNoRows
    THEN createString(drv, d, name, domainId)
    ELSE [db |-> d, id |-> g.id, err |-> g.err]

\* a variant of getTranslationId whose query leaves language_id out
getTranslationIdAnyLanguage(d, langId, stringId, domainId) ==
    LET rows == {t \in d.translation :
                   /\ t.string_id = stringId
                   /\ \E s \in d.string :
                        s.id = stringId /\ s.domain_id = domainId} IN
    IF ~d.tables THEN [id |-> 0, err |-> ErrSql]
    ELSE IF rows = {} THEN [id |-> 0, err |-> ErrNoRows]
    ELSE [id |-> RowWithMinId(rows).id, err |-> Nil]

\* a variant of getTranslationId that never finds a row
getTranslationIdMiss(d, langId, stringId, domainId) ==
    IF ~d.tables THEN [id |-> 0, err |-> ErrSql]
    ELSE [id |-> 0, err |-> ErrNoRows]

\* DataStore.getTranslationId: string JOIN translation WHERE string.id = ?
\* AND language_id = ? AND domain_id = ?
getTranslationId(d, langId, stringId, domainId) ==
    LET rows == {t \in d.translation :
                   /\ t.string_id = stringId
                   /\ t.language_id = langId
                   /\ \E s \in d.string :
                        s.id = stringId /\ s.domain_id = domainId} IN
    IF ~d.tables THEN [id |-> 0, err |-> ErrSql]
    ELSE IF rows = {} THEN [id |-> 0, err |-> ErrNoRows]
    ELSE [id |-> RowWithMinId(rows).id, err |-> Nil]

\* DataStore.createTranslation
createTranslation(drv, d, content, langId, stringId) ==
    insert(drv, d, "translation",
           [id |-> 0, language_id |-> langId, content |-> content,
            string_id |-> stringId])

\* a variant of updateTranslation whose UPDATE leaves the content column out
updateTranslationKeepsContent(d, content, transId, langId, stringId) ==
    IF ~d.tables THEN [db |-> d, err |-> ErrSql]
    ELSE [db |-> [d EXCEPT !.translation =
                    {IF t.id = transId
                     THEN [t EXCEPT !.language_id = langId,
                                    !.string_id = stringId]
                     ELSE t : t \in @}],
          err |-> Nil]

\* DataStore.updateTranslation: UPDATE translation SET language_id = ?,
\* content = ?, string_id = ? WHERE id = ?
updateTranslation(d, content, transId, langId, stringId) ==
    IF ~d.tables THEN [db |-> d, err |-> ErrSql]
    ELSE [db |-> [d EXCEPT !.translation =
                    {IF t.id = transId
                     THEN [t EXCEPT !.language_id = langId,
                                    !.content = content,
                                    !.string_id = stringId]
                     ELSE t : t \in @}],
          err |-> Nil]

\* the database may hold the rows the call would leave
WithinBounds(d) ==
    /\ d.seq.string <= MaxStrings
    /\ d.seq.translation <= MaxTranslations
    /\ d.seq.language <= Len(SeedLanguages(driver)) + 1 + MaxNewLanguages

(* ------------------------------------------------------------ migrations *)
Dutch == <<"nl">>

\* up()[i-1] executed by db.Exec: script 1 creates the four tables and
\* seeds the languages, script 2 (SQLite) adds Dutch
UpScript(drv, i, d) ==
    IF i = 1
    THEN IF d.tables THEN [db |-> d, err |-> ErrSql]
         ELSE LET seed == SeedLanguages(drv) IN
              [db |-> [d EXCEPT
                         !.tables = TRUE,
                         !.domain = {}, !.string = {}, !.translation = {},
                         !.language =
                            {[id |-> k, name |-> seed[k].name,
                              code |-> seed[k].code] : k \in DOMAIN seed},
                         !.seq = [EmptySeq EXCEPT !.language = Len(seed)]],
               err |-> Nil]
    ELSE LET r == SqlInsert(drv, d, "language",
                            [id |-> 0, name |-> "Dutch", code |-> Dutch]) IN
         [db |-> r.db, err |-> r.err]

\* down()[i-1] executed by db.Exec: script 1 drops the four tables (IF
\* EXISTS on PostgreSQL only), script 2 deletes Dutch (and, by ON DELETE
\* CASCADE, its translations), script 3 (PostgreSQL) renames Dutch
DownScript(drv, i, d) ==
    IF i = 1
    THEN IF ~d.tables /\ drv = Sqlite3 THEN [db |-> d, err |-> ErrSql]
         ELSE [db |-> [d EXCEPT !.tables = FALSE,
                                !.domain = {}, !.string = {},
                                !.translation = {}, !.language = {},
                                !.seq = EmptySeq],
               err |-> Nil]
    ELSE IF ~d.tables THEN [db |-> d, err |-> ErrSql]
    ELSE IF i = 2
    THEN LET gone == {l.id : l \in {r \in d.language : r.code = Dutch}} IN
         [db |-> [d EXCEPT !.language = {r \in @ : r.id \notin gone},
                           !.translation =
                              {r \in @ : r.language_id \notin gone}],
          err |-> Nil]
    ELSE [db |-> [d EXCEPT !.language =
                     {IF r.name = "Dutch" /\ r.code = Dutch
                      THEN [r EXCEPT !.name = "Duth"] ELSE r : r \in @}],
          err |-> Nil]

\* Adapter.EnsureVersionTableExists: CREATE TABLE IF NOT EXISTS, then one
\* row with version 0 when the table is empty
EnsureVersionTableExists(d) ==
    LET count == Len(d.schema_migrations) IN
    IF count = 0 THEN [db |-> [d EXCEPT !.schema_migrations = <<0>>],
                       err |-> Nil]
    ELSE IF count > 1 THEN [db |-> d, err |-> ErrTooManyRows]
    ELSE [db |-> d, err |-> Nil]

\* a variant of version that always reports a database without version
versionZero(d) == 0

\* Adapter.version: SELECT version FROM schema_migrations (0 without row)
version(d) ==
    IF d.schema_migrations = <<>> THEN 0 ELSE d.schema_migrations[1]

\* a variant of updateVersion that writes nothing
updateVersionSkipped(v, d) == d

\* Adapter.updateVersion: UPDATE schema_migrations SET version = ?
updateVersion(v, d) ==
    [d EXCEPT !.schema_migrations = [k \in DOMAIN @ |-> v]]

\* what may go wrong outside the program during a migration: db.Exec of
\* script `fault` fails (no script has number 0: nothing fails)
Faults(n) == 0..n

RECURSIVE UpLoop(_, _, _, _, _)
\* the loop of Adapter.MigrateUp from script i on; st holds the database,
\* the named result `version`, the error and the steps performed
UpLoop(drv, i, startVer, fault, st) ==
    IF i > UpLen(drv) THEN st
    ELSE IF i <= startVer
    THEN UpLoop(drv, i + 1, startVer, fault, [st EXCEPT !.version = i])
    ELSE LET r == UpScript(drv, i, st.db) IN
         IF fault = i
         THEN [st EXCEPT !.err = ErrExec]
         ELSE IF r.err # Nil
         THEN [st EXCEPT !.err = r.err]
         ELSE UpLoop(drv, i + 1, startVer, fault,
                     [st EXCEPT !.db = updateVersion(i, r.db),
                                !.version = i,
                                !.trace = @ \o << <<"exec", i>>,
                                                  <<"version", i>> >>])

RECURSIVE DownLoop(_, _, _, _, _)
\* the loop of Adapter.MigrateDown from script i down to script 1
DownLoop(drv, i, startVer, fault, st) ==
    IF i < 1 THEN st
    ELSE IF i > startVer
    THEN DownLoop(drv, i - 1, startVer, fault,
                  [st EXCEPT !.version = startVer])
    ELSE LET r == DownScript(drv, i, st.db) IN
         IF fault = i
         THEN [st EXCEPT !.err = ErrExec]
         ELSE IF r.err # Nil
         THEN [st EXCEPT !.err = r.err]
         ELSE DownLoop(drv, i - 1, startVer, fault,
                       [st EXCEPT !.db = updateVersion(i - 1, r.db),
                                  !.version = i - 1,
                                  !.trace = @ \o << <<"exec", i>>,
                                                    <<"version", i - 1>> >>])

\* Adapter.MigrateUp
AdapterMigrateUp(drv, d, fault) ==
    UpLoop(drv, 1, version(d), fault,
           [db |-> d, version |-> 0, err |-> Nil, trace |-> <<>>])

\* Adapter.MigrateDown
AdapterMigrateDown(drv, d, fault) ==
    DownLoop(drv, DownLen(drv), version(d), fault,
             [db |-> d, version |-> 0, err |-> Nil, trace |-> <<>>])

\* what the previous call was and gave, kept with the result of a call
Prev ==
    [op |-> last.op, err |-> last.err,
     version |-> IF last.op \in {"MigrateUp", "MigrateDown"}
                 THEN last.version ELSE 0]

\* DataStore.MigrateUp (the init-db command)
MigrateUp ==
    \E fault \in Faults(UpLen(driver)) :
        LET e == EnsureVersionTableExists(db)
            r == AdapterMigrateUp(driver, e.db, fault) IN
        /\ db' = IF e.err # Nil THEN e.db ELSE r.db
        /\ WithinBounds(db')
        /\ last' = IF e.err # Nil
                   THEN [op |-> "MigrateUp", version |-> 0, err |-> e.err,
                         trace |-> <<>>, startVer |-> version(db),
                         prev |-> Prev]
                   ELSE [op |-> "MigrateUp", version |-> r.version,
                         err |-> r.err, trace |-> r.trace,
                         startVer |-> version(db), prev |-> Prev]
        /\ ds' = NewDataStore
        /\ UNCHANGED <<driver, files>>
        /\ UNCHANGED <<server, twin, concurrent>>

\* DataStore.MigrateDown (the remove-db command)
MigrateDown ==
    \E fault \in Faults(DownLen(driver)) :
        LET e == EnsureVersionTableExists(db)
            r == AdapterMigrateDown(driver, e.db, fault) IN
        /\ db' = IF e.err # Nil THEN e.db ELSE r.db
        /\ WithinBounds(db')
        /\ last' = IF e.err # Nil
                   THEN [op |-> "MigrateDown", version |-> 0, err |-> e.err,
                         trace |-> <<>>, startVer |-> version(db),
                         prev |-> Prev]
                   ELSE [op |-> "MigrateDown", version |-> r.version,
                         err |-> r.err, trace |-> r.trace,
                         startVer |-> version(db), prev |-> Prev]
        /\ ds' = NewDataStore
        /\ UNCHANGED <<driver, files>>
        /\ UNCHANGED <<server, twin, concurrent>>

(* ------------------------------------------------- DataStore operations *)
\* the rows of GetSingleDomainQuery: string JOIN translation JOIN language
\* WHERE string.domain_id = (SELECT id FROM domain WHERE name = ?)
DomainRows(d, name) ==
    {[StringId |-> s.id, Name |-> s.name, LanguageId |-> l.id,
      Code |-> l.code, TranslationId |-> t.id, Content |-> t.content] :
        <<s, t, l>> \in
            {x \in d.string \X d.translation \X d.language :
                /\ x[1].id = x[2].string_id
                /\ x[2].language_id = x[3].id
                /\ \E dom \in d.domain :
                     dom.name = name /\ dom.id = x[1].domain_id}}

\* ORDER BY string.name
NameOrder == <<"s", "t">>

\* trans.Language{Id, Code} as GetFullDomain builds it (Name left empty)
LanguageKey(id, code) == [Id |-> id, Code |-> code, Name |-> ""]

\* DataStore.GetFullDomain: sql.ErrNoRows when the query gives no row;
\* else one entry per string name, in name order, each with a map from
\* language to content
GetFullDomain(d, name) ==
    LET rows == DomainRows(d, name)
        names == SelectSeq(NameOrder,
                           LAMBDA n : \E r \in rows : r.Name = n)
        transOf(n) ==
            LET rs == {r \in rows : r.Name = n}
                keys == {LanguageKey(r.LanguageId, r.Code) : r \in rs} IN
            [k \in keys |->
                (CHOOSE r \in rs :
                    LanguageKey(r.LanguageId, r.Code) = k).Content] IN
    IF ~d.tables THEN [err |-> ErrSql, name |-> name, strings |-> <<>>]
    ELSE IF rows = {}
    THEN [err |-> ErrNoRows, name |-> name, strings |-> <<>>]
    ELSE [err |-> Nil, name |-> name,
          strings |-> [i \in DOMAIN names |->
                         [name |-> names[i],
                          translations |-> transOf(names[i])]]]

\* a variant of CreateLanguage that inserts without the probe
CreateLanguageNoProbe(drv, d, code, name) ==
    insert(drv, d, "language", [id |-> 0, name |-> name, code |-> code])

\* DataStore.CreateLanguage: probe with getLanguage, then insert
CreateLanguageResult(drv, d, code, name) ==
    LET g == getLanguage(d, code) IN
    IF g.err # Nil /\ g.err # ErrLanguageMissing
    THEN [db |-> d, id |-> 0, err |-> g.err]
    ELSE IF g.err = Nil
    THEN [db |-> d, id |-> g.l.id, err |-> ErrAlreadyExists]
    ELSE insert(drv, d, "language",
                [id |-> 0, name |-> name, code |-> code])

CreateLanguage ==
    \E code \in Codes :
        LET r == CreateLanguageResult(driver, db, code, "New") IN
        /\ db' = r.db
        /\ WithinBounds(db')
        /\ last' = [op |-> "CreateLanguage", code |-> code, id |-> r.id,
                    err |-> r.err, prev |-> Prev,
                    prevCode |-> IF last.op = "CreateLanguage"
                                 THEN last.code ELSE <<>>]
        /\ ds' = NewDataStore
        /\ UNCHANGED <<driver, files>>
        /\ UNCHANGED <<server, twin, concurrent>>

\* DataStore.CreateOrUpdateTranslation
CreateOrUpdateTranslationResult(drv, d, c, domainName, stringName, langCode, content, allowCreate) ==
    LET dom == getDomainId(d, c, domainName)
        str == IF allowCreate
               THEN createOrGetString(drv, d, stringName, dom.id)
               ELSE [db |-> d] @@ getStringId(d, stringName, dom.id)
        lang == getLanguage(str.db, langCode)
        tr == getTranslationId(str.db, lang.l.id, str.id, dom.id)
        ins == createTranslation(drv, str.db, content, lang.l.id, str.id)
        upd == updateTranslation(str.db, content, tr.id, lang.l.id, str.id) IN
    IF dom.err # Nil THEN [db |-> d, ds |-> dom.ds, err |-> dom.err]
    ELSE IF str.err # Nil THEN [db |-> str.db, ds |-> dom.ds, err |-> str.err]
    ELSE IF lang.err # Nil
    THEN [db |-> str.db, ds |-> dom.ds, err |-> lang.err]
    ELSE IF tr.err # Nil /\ ~allowCreate
    THEN [db |-> str.db, ds |-> dom.ds, err |-> tr.err]
    ELSE IF tr.err = ErrNoRows /\ allowCreate
    THEN [db |-> ins.db, ds |-> dom.ds, err |-> ins.err]
    ELSE IF tr.err = Nil
    THEN [db |-> upd.db, ds |-> dom.ds, err |-> upd.err]
    ELSE [db |-> str.db, ds |-> dom.ds, err |-> tr.err]

CreateOrUpdateTranslation ==
    \E domainName \in DomainNames, stringName \in StringNames,
       langCode \in Codes, content \in Contents, allowCreate \in BOOLEAN :
        LET r == CreateOrUpdateTranslationResult(
                     driver, db, NewDataStore, domainName, stringName, langCode,
                     content, allowCreate) IN
        /\ db' = r.db
        /\ WithinBounds(db')
        /\ ds' = r.ds
        /\ last' = [op |-> "CreateOrUpdateTranslation",
                    domain |-> domainName, string |-> stringName,
                    lang |-> langCode, content |-> content,
                    allowCreate |-> allowCreate, err |-> r.err]
        /\ UNCHANGED <<driver, files>>
        /\ UNCHANGED <<server, twin, concurrent>>

\* DataStore.DeleteString: resolve the domain and the string, then
\* DeleteStringQuery
DeleteStringResult(d, c, domainName, stringName) ==
    LET dom == getDomainId(d, c, domainName)
        str == getStringId(d, stringName, dom.id) IN
    IF dom.err # Nil THEN [db |-> d, ds |-> dom.ds, err |-> dom.err]
    ELSE IF str.err # Nil THEN [db |-> d, ds |-> dom.ds, err |-> str.err]
    ELSE [db |-> SqlDeleteString(d, str.id), ds |-> dom.ds, err |-> Nil]

DeleteString ==
    \E domainName \in DomainNames, stringName \in StringNames :
        LET r == DeleteStringResult(db, NewDataStore, domainName,
                                    stringName) IN
        /\ db' = r.db
        /\ ds' = r.ds
        /\ last' = [op |-> "DeleteString", domain |-> domainName,
                    string |-> stringName, err |-> r.err,
                    removed |-> Cardinality(db.translation)
                                - Cardinality(r.db.translation)]
        /\ UNCHANGED <<driver, files>>
        /\ UNCHANGED <<server, twin, concurrent>>

\* DataStore.DeleteTranslation: resolve the domain, the string, the
\* language and the translation, then DeleteTranslationQuery
DeleteTranslationResult(d, c, domainName, stringName, langCode) ==
    LET dom == getDomainId(d, c, domainName)
        str == getStringId(d, stringName, dom.id)
        lang == getLanguage(d, langCode)
        tr == getTranslationId(d, lang.l.id, str.id, dom.id) IN
    IF dom.err # Nil THEN [db |-> d, ds |-> dom.ds, err |-> dom.err]
    ELSE IF str.err # Nil THEN [db |-> d, ds |-> dom.ds, err |-> str.err]
    ELSE IF lang.err # Nil THEN [db |-> d, ds |-> dom.ds, err |-> lang.err]
    ELSE IF tr.err # Nil THEN [db |-> d, ds |-> dom.ds, err |-> tr.err]
    ELSE [db |-> SqlDeleteTranslation(d, tr.id), ds |-> dom.ds, err |-> Nil]

DeleteTranslation ==
    \E domainName \in DomainNames, stringName \in StringNames,
       langCode \in Codes :
        LET r == DeleteTranslationResult(db, NewDataStore, domainName,
                                         stringName, langCode) IN
        /\ db' = r.db
        /\ ds' = r.ds
        /\ last' = [op |-> "DeleteTranslation", domain |-> domainName,
                    string |-> stringName, lang |-> langCode, err |-> r.err]
        /\ UNCHANGED <<driver, files>>
        /\ UNCHANGED <<server, twin, concurrent>>

(* ------------------------------------------------------------ XLIFF codec *)
XliffExt == "xliff"

RECURSIVE Split(_, _)
\* strings.Split(s, sep) on a sequence of tokens
Split(s, sep) ==
    IF \A i \in DOMAIN s : s[i] # sep THEN <<s>>
    ELSE LET k == Min({i \in DOMAIN s : s[i] = sep}) IN
         <<SubSeq(s, 1, k - 1)>> \o Split(SubSeq(s, k + 1, Len(s)), sep)

\* fmt.Sprintf("%v.%v.xliff", name, targetLang)
FileName(name, lang) == name \o <<DOT>> \o lang \o <<DOT, XliffExt>>

\* xliff.infoFromFilename
infoFromFilename(filename) ==
    LET parts == Split(filename, DOT) IN
    IF Len(parts) # 3
    THEN [name |-> <<>>, expectLang |-> <<>>, err |-> ErrFilename]
    ELSE [name |-> parts[1], expectLang |-> parts[2], err |-> Nil]

\* xliff.hash: SHA-1 of the string name, kept symbolic
hash(input) == <<"sha1", input>>

\* a decoder that trusts the file name and never compares target-language
NewFromFileAnyTarget(dir, filename) ==
    LET doc == dir[filename]
        info == infoFromFilename(filename) IN
    IF ~doc.wellFormed THEN [err |-> ErrXml, xliff |-> <<>>]
    ELSE IF info.err # Nil THEN [err |-> info.err, xliff |-> <<>>]
    ELSE [err |-> Nil,
          xliff |-> [name |-> info.name,
                     SourceLang |-> doc.SourceLang,
                     TargetLang |-> info.expectLang,
                     TransUnits |->
                        [i \in DOMAIN doc.TransUnits |->
                            [language |-> info.expectLang,
                             TransUnitName |-> doc.TransUnits[i].TransUnitName,
                             Source |-> doc.TransUnits[i].Source,
                             TransUnitContent |->
                                doc.TransUnits[i].TransUnitContent]]]]

\* xliff.NewFromFile on the file `filename` of directory `dir`: the XML is
\* parsed first, then the file name; every trans-unit gets the language of
\* the document
NewFromFile(dir, filename) ==
    LET doc == dir[filename]
        info == infoFromFilename(filename) IN
    IF ~doc.wellFormed THEN [err |-> ErrXml, xliff |-> <<>>]
    ELSE IF info.err # Nil THEN [err |-> info.err, xliff |-> <<>>]
    ELSE IF doc.TargetLang # info.expectLang
    THEN [err |-> ErrTargetLang, xliff |-> <<>>]
    ELSE [err |-> Nil,
          xliff |-> [name |-> info.name,
                     SourceLang |-> doc.SourceLang,
                     TargetLang |-> doc.TargetLang,
                     TransUnits |->
                        [i \in DOMAIN doc.TransUnits |->
                            [language |-> doc.TargetLang,
                             TransUnitName |-> doc.TransUnits[i].TransUnitName,
                             Source |-> doc.TransUnits[i].Source,
                             TransUnitContent |->
                                doc.TransUnits[i].TransUnitContent]]]]

\* xliff.getTranslation
getTranslation(s, l) ==
    IF l \in DOMAIN s.translations
    THEN [ok |-> TRUE, content |-> s.translations[l]]
    ELSE [ok |-> FALSE, content |-> ""]

\* an export that lists every string of the domain in every document
ExportEveryString(source, sourceLang) ==
    LET langs == UNION {DOMAIN source.strings[i].translations :
                           i \in DOMAIN source.strings}
        sourceText(s) ==
            LET t == getTranslation(s, sourceLang) IN
            IF t.ok THEN t.content ELSE s.name
        unit(s, l) == [Hash |-> hash(s.name),
                       TransUnitName |-> s.name,
                       Source |-> sourceText(s),
                       TransUnitContent |-> getTranslation(s, l).content]
        document(l) ==
            [wellFormed |-> TRUE,
             SourceLang |-> sourceLang.Code,
             TargetLang |-> l.Code,
             TransUnits |-> [i \in DOMAIN source.strings |->
                                unit(source.strings[i], l)]]
        names == {FileName(source.name, l.Code) : l \in langs} IN
    [f \in names |->
        document(CHOOSE l \in langs : FileName(source.name, l.Code) = f)]

\* an export whose source text is always the name of the string
ExportSourceIsName(source, sourceLang) ==
    LET langs == UNION {DOMAIN source.strings[i].translations :
                           i \in DOMAIN source.strings}
        having(l) == SelectSeq(source.strings,
                               LAMBDA s : l \in DOMAIN s.translations)
        unit(s, l) == [Hash |-> hash(s.name),
                       TransUnitName |-> s.name,
                       Source |-> s.name,
                       TransUnitContent |-> s.translations[l]]
        document(l) ==
            [wellFormed |-> TRUE,
             SourceLang |-> sourceLang.Code,
             TargetLang |-> l.Code,
             TransUnits |-> [i \in DOMAIN having(l) |-> unit(having(l)[i], l)]]
        names == {FileName(source.name, l.Code) : l \in langs} IN
    [f \in names |->
        document(CHOOSE l \in langs : FileName(source.name, l.Code) = f)]

\* xliff.Export: the documents written, as a function from file name to
\* document; a document holds the attributes and texts xml.Encoder writes
\* (escaped on writing, unescaped on reading) and not the unexported
\* fields name and language
Export(source, sourceLang) ==
    LET langs == UNION {DOMAIN source.strings[i].translations :
                           i \in DOMAIN source.strings}
        sourceText(s) ==
            LET t == getTranslation(s, sourceLang) IN
            IF t.ok THEN t.content ELSE s.name
        having(l) == SelectSeq(source.strings,
                               LAMBDA s : l \in DOMAIN s.translations)
        unit(s, l) == [Hash |-> hash(s.name),
                       TransUnitName |-> s.name,
                       Source |-> sourceText(s),
                       TransUnitContent |-> s.translations[l]]
        document(l) ==
            [wellFormed |-> TRUE,
             SourceLang |-> sourceLang.Code,
             TargetLang |-> l.Code,
             TransUnits |-> [i \in DOMAIN having(l) |-> unit(having(l)[i], l)]]
        names == {FileName(source.name, l.Code) : l \in langs} IN
    [f \in names |->
        document(CHOOSE l \in langs : FileName(source.name, l.Code) = f)]

\* DataStore.ExportDomain: the full domain, the source language "en" with
\* its Name cleared, then xliff.Export into the directory
ExportDomainResult(d, dir, name) ==
    LET full == GetFullDomain(d, name)
        l == getLanguage(d, <<"en">>)
        written == Export(full, LanguageKey(l.l.id, l.l.code)) IN
    IF full.err # Nil THEN [files |-> dir, err |-> full.err, written |-> {}]
    ELSE IF l.err # Nil THEN [files |-> dir, err |-> l.err, written |-> {}]
    ELSE [files |-> written @@ dir, err |-> Nil, written |-> DOMAIN written]

ExportDomain ==
    \E name \in DomainNames :
        LET r == ExportDomainResult(db, files, name) IN
        /\ files' = r.files
        /\ last' = [op |-> "ExportDomain", domain |-> name, err |-> r.err,
                    written |-> r.written]
        /\ ds' = NewDataStore
        /\ UNCHANGED <<driver, db>>
        /\ UNCHANGED <<server, twin, concurrent>>

(* ---------------------------------------------------------------- import *)
StringKey(domainId, name) == [DomainId |-> domainId, Name |-> name]

RECURSIVE ImportStrings(_, _, _, _, _, _)
\* the loop of DataStore.ImportDomain over the trans-units from index i on;
\* the error of getTranslationId, updateTranslation and createTranslation
\* lives in the scope of the inner `if` only, so the check that follows
\* reads the nil error of getLanguage and the loop goes on; `dropped` lists
\* the errors lost in this way
ImportStrings(drv, d, c, domId, units, i) ==
    IF i > Len(units)
    THEN [db |-> d, ds |-> c, err |-> Nil, dropped |-> <<>>]
    ELSE
    LET u == units[i]
        key == StringKey(domId, u.TransUnitName)
        hit == key \in DOMAIN c.stringCache
        str == IF hit
               THEN [db |-> d, id |-> c.stringCache[key], err |-> Nil]
               ELSE createOrGetString(drv, d, u.TransUnitName, domId)
        c2 == IF hit THEN c
              ELSE [c EXCEPT !.stringCache = (key :> str.id) @@ @]
        lang == getLanguage(str.db, u.language)
        tr == getTranslationId(str.db, lang.l.id, str.id, domId)
        upd == updateTranslation(str.db, u.TransUnitContent, tr.id,
                                 lang.l.id, str.id)
        ins == createTranslation(drv, str.db, u.TransUnitContent,
                                 lang.l.id, str.id)
        then(e, next) ==
            LET rest == ImportStrings(drv, next, c2, domId, units, i + 1) IN
            IF e = Nil THEN rest
            ELSE [rest EXCEPT !.dropped = <<e>> \o @] IN
    IF str.err # Nil
    THEN [db |-> str.db, ds |-> c, err |-> str.err, dropped |-> <<>>]
    ELSE IF lang.err # Nil
    THEN [db |-> str.db, ds |-> c2, err |-> lang.err, dropped |-> <<>>]
    ELSE IF tr.err = Nil THEN then(upd.err, upd.db)
    ELSE IF tr.err = ErrNoRows THEN then(ins.err, ins.db)
    ELSE then(tr.err, str.db)

\* DataStore.ImportDomain
ImportDomain(drv, d, c, x) ==
    LET dom == createOrGetDomain(drv, d, c, x.name) IN
    IF dom.err # Nil
    THEN [db |-> dom.db, ds |-> dom.ds, err |-> dom.err, dropped |-> <<>>]
    ELSE ImportStrings(drv, dom.db, dom.ds, dom.id, x.TransUnits, 1)

\* the rank of a token in byte order; file names compare token by token
TokenOrder ==
    <<DOT, "de", "en", "g", "h", "nl", "nl-be", "us", XliffExt, "xx">>
TokenRank(t) == CHOOSE k \in DOMAIN TokenOrder : TokenOrder[k] = t

RECURSIVE Before(_, _)
\* a sorts before b (sort.Strings in filepath.Glob)
Before(a, b) ==
    IF a = <<>> THEN b # <<>>
    ELSE IF b = <<>> THEN FALSE
    ELSE IF a[1] = b[1] THEN Before(Tail(a), Tail(b))
    ELSE TokenRank(a[1]) < TokenRank(b[1])

RECURSIVE Listing(_)
\* filepath.Glob(dir/*.xliff): the file names in sorted order
Listing(names) ==
    IF names = {} THEN <<>>
    ELSE LET first == CHOOSE f \in names :
                          \A g \in names \ {f} : Before(f, g) IN
         <<first>> \o Listing(names \ {first})

\* a send that gives up when a message is waiting in the channel
notifyOrSkip(ch, file) ==
    IF ch # <<>> THEN ch ELSE Append(ch, file)

\* `notify <- filepath.Base(file)`: the messages sent on the channel so far
notify(ch, file) == Append(ch, file)

RECURSIVE ImportFiles(_, _, _, _, _, _, _, _)
\* the loop of DataStore.ImportDir from file i of the listing on; steps
\* lists what the loop has done, in order
ImportFiles(drv, d, c, dir, listing, i, notified, steps) ==
    IF i > Len(listing)
    THEN [db |-> d, ds |-> c, count |-> Len(listing), err |-> Nil,
          notified |-> notified, steps |-> steps]
    ELSE
    LET x == NewFromFile(dir, listing[i])
        r == ImportDomain(drv, d, c, x.xliff)
        decoded == Append(steps, <<"NewFromFile", listing[i]>>)
        imported == Append(decoded, <<"ImportDomain", listing[i]>>)
        sent == notify(notified, listing[i]) IN
    IF x.err # Nil
    THEN [db |-> d, ds |-> c, count |-> i - 1, err |-> x.err,
          notified |-> notified, steps |-> decoded]
    ELSE IF r.err # Nil
    THEN [db |-> r.db, ds |-> r.ds, count |-> i - 1, err |-> r.err,
          notified |-> notified, steps |-> imported]
    ELSE ImportFiles(drv, r.db, r.ds, dir, listing, i + 1, sent,
                     IF sent = notified THEN imported
                     ELSE Append(imported, <<"notify", listing[i]>>))

\* an import that reports every file of the listing as imported
ImportDirCountsAll(drv, d, c, dir) ==
    [ImportFiles(drv, d, c, dir, Listing(DOMAIN dir), 1, <<>>, <<>>)
        EXCEPT !.count = Len(Listing(DOMAIN dir))]

\* DataStore.ImportDir on the directory of XLIFF files
ImportDirResult(drv, d, c, dir) ==
    ImportFiles(drv, d, c, dir, Listing(DOMAIN dir), 1, <<>>, <<>>)

ImportDir ==
    LET r == ImportDirResult(driver, db, NewDataStore, files) IN
    /\ db' = r.db
    /\ WithinBounds(db')
    /\ ds' = r.ds
    /\ last' = [op |-> "ImportDir", count |-> r.count, err |-> r.err,
                notified |-> r.notified, steps |-> r.steps, prev |-> Prev]
    /\ UNCHANGED <<driver, files>>
    /\ UNCHANGED <<server, twin, concurrent>>

(* ------------------------------------------- ImportDomain, call by call *)
\* the fragments that the files of a directory decode to
Fragments(dir) ==
    {NewFromFile(dir, f).xliff :
        f \in {g \in DOMAIN dir : NewFromFile(dir, g).err = Nil}}

\* DataStore.ImportDomain called on a decoded fragment, either on the
\* DataStore that made the last call or on one that datastore.New has just
\* returned
ImportDomainCall ==
    \E x \in Fragments(files), fresh \in BOOLEAN :
        LET r == ImportDomain(driver, db, IF fresh THEN NewDataStore ELSE ds,
                              x) IN
        /\ db' = r.db
        /\ WithinBounds(db')
        /\ ds' = r.ds
        /\ last' = [op |-> "ImportDomain", fragment |-> x, fresh |-> fresh,
                    err |-> r.err, dropped |-> r.dropped,
                    again |-> /\ last.op = "ImportDomain"
                              /\ last.fragment = x]
        /\ UNCHANGED <<driver, files>>
        /\ UNCHANGED <<server, twin, concurrent>>

(* ------------------------------------------- the import, file by file *)
\* The import command while requests are served: DataStore.ImportDir as
\* the steps of its loop, on the DataStore the command made, with the calls
\* of other DataStores on the same database between them.

\* the start of ImportDir: filepath.Glob lists the directory; for a
\* directory name that is not a pattern (an unclosed "[") it returns
\* ErrBadPattern and ImportDir returns (0, nil)
importStart ==
    \E badPattern \in BOOLEAN :
        /\ importer = NotImporting
        /\ IF badPattern
           THEN /\ importer' = NotImporting
                /\ last' = [op |-> "importReturn", count |-> 0, err |-> Nil,
                            failed |-> <<ErrBadPattern>>, notified |-> <<>>]
           ELSE /\ importer' = [at |-> 1, listing |-> Listing(DOMAIN files),
                                ds |-> NewDataStore, notified |-> <<>>,
                                failed |-> <<>>]
                /\ last' = [op |-> "importStart", err |-> Nil]
        /\ UNCHANGED <<driver, db, ds, files, server, twin, requests, writers>>

\* one turn of the loop of ImportDir: NewFromFile, ImportDomain, notify
importFile ==
    /\ importer # NotImporting
    /\ importer.at <= Len(importer.listing)
    /\ LET f == importer.listing[importer.at]
           x == NewFromFile(files, f)
           r == ImportDomain(driver, db, importer.ds, x.xliff)
           return(e, failed) ==
               /\ importer' = NotImporting
               /\ last' = [op |-> "importReturn", count |-> importer.at - 1,
                           err |-> e, failed |-> failed,
                           notified |-> importer.notified] IN
       IF x.err # Nil
       THEN /\ return(x.err, importer.failed)
            /\ UNCHANGED <<db, ds>>
       ELSE /\ db' = r.db
            /\ WithinBounds(db')
            /\ ds' = r.ds
            /\ IF r.err # Nil
               THEN return(r.err, importer.failed \o r.dropped)
               ELSE /\ importer' =
                          [importer EXCEPT
                              !.at = @ + 1,
                              !.ds = r.ds,
                              !.notified = notify(@, f),
                              !.failed = @ \o r.dropped]
                    /\ last' = [op |-> "importFile", file |-> f,
                                err |-> Nil, dropped |-> r.dropped]
    /\ UNCHANGED <<driver, files, server, twin, requests, writers>>

\* `return len(files), nil` after the last file
importReturn ==
    /\ importer # NotImporting
    /\ importer.at > Len(importer.listing)
    /\ importer' = NotImporting
    /\ last' = [op |-> "importReturn", count |-> Len(importer.listing),
                err |-> Nil, failed |-> importer.failed,
                notified |-> importer.notified]
    /\ UNCHANGED <<driver, db, ds, files, server, twin, requests, writers>>

(* ---------------------------------------------------- the export command *)
\* DataStore.GetDomainList: SELECT name FROM domain ORDER BY name
GetDomainList(d) ==
    IF ~d.tables THEN [err |-> ErrSql, domains |-> <<>>]
    ELSE [err |-> Nil, domains |-> Listing({dom.name : dom \in d.domain})]

RECURSIVE ExportDomains(_, _, _, _)
\* the loop of the export command from domain i of the list on: checkFatal
\* ends the command at the first ExportDomain that fails
ExportDomains(d, dir, domains, i) ==
    IF i > Len(domains) THEN [files |-> dir, err |-> Nil, exported |-> i - 1]
    ELSE LET r == ExportDomainResult(d, dir, domains[i]) IN
         IF r.err # Nil
         THEN [files |-> r.files, err |-> r.err, exported |-> i - 1]
         ELSE ExportDomains(d, r.files, domains, i + 1)

\* the export command of the command line
exportCommand ==
    LET list == GetDomainList(db)
        r == ExportDomains(db, files, list.domains, 1) IN
    /\ files' = IF list.err # Nil THEN files ELSE r.files
    /\ last' = [op |-> "export",
                err |-> IF list.err # Nil THEN list.err ELSE r.err,
                domains |-> list.domains,
                exported |-> IF list.err # Nil THEN 0 ELSE r.exported]
    /\ ds' = NewDataStore
    /\ UNCHANGED <<driver, db>>
    /\ UNCHANGED <<server, twin, concurrent>>

(* ------------------------------------------------------ the two back-ends *)
\* DataStore.GetLanguageList: SELECT id, code, name FROM language ORDER BY
\* code, the ids left out
GetLanguageList(d) ==
    IF ~d.tables THEN [err |-> ErrSql, languages |-> <<>>]
    ELSE LET codes == Listing({l.code : l \in d.language}) IN
         [err |-> Nil,
          languages |->
             [i \in DOMAIN codes |->
                 [code |-> codes[i],
                  names |-> {l.name : l \in {k \in d.language :
                                                k.code = codes[i]}}]]]

\* the result of GetFullDomain with the ids left out
WithoutIds(full) ==
    [err |-> full.err,
     strings |->
        [i \in DOMAIN full.strings |->
            [name |-> full.strings[i].name,
             translations |->
                {<<k.Code, full.strings[i].translations[k]>> :
                    k \in DOMAIN full.strings[i].translations}]]]

\* the PostgreSQL database may hold the rows the call would leave
TwinWithinBounds(d) ==
    /\ d.seq.string <= MaxStrings
    /\ d.seq.translation <= MaxTranslations
    /\ d.seq.language <= Len(SeedLanguages(Postgresql)) + 1 + MaxNewLanguages

\* one call made on both databases: the new databases and the two results
Both(op, a, b, dbA, dbB) ==
    /\ db' = dbA
    /\ twin' = dbB
    /\ WithinBounds(db')
    /\ TwinWithinBounds(twin')
    /\ last' = [op |-> op, sqlite3 |-> a, postgresql |-> b]
    /\ ds' = NewDataStore
    /\ UNCHANGED <<driver, files, server, concurrent>>

TwinGetLanguageList ==
    Both("GetLanguageList", GetLanguageList(db), GetLanguageList(twin),
         db, twin)

TwinCreateLanguage ==
    \E code \in Codes :
        LET a == CreateLanguageResult(Sqlite3, db, code, "name")
            b == CreateLanguageResult(Postgresql, twin, code, "name") IN
        Both("CreateLanguage", a.err, b.err, a.db, b.db)

TwinImportDomain ==
    \E f \in DOMAIN files :
        LET x == NewFromFile(files, f).xliff
            a == ImportDomain(Sqlite3, db, NewDataStore, x)
            b == ImportDomain(Postgresql, twin, NewDataStore, x) IN
        Both("ImportDomain", a.err, b.err, a.db, b.db)

TwinCreateOrUpdateTranslation ==
    \E domainName \in DomainNames, stringName \in StringNames,
       langCode \in Codes, content \in Contents, allowCreate \in BOOLEAN :
        LET a == CreateOrUpdateTranslationResult(Sqlite3, db, NewDataStore,
                     domainName, stringName, langCode, content, allowCreate)
            b == CreateOrUpdateTranslationResult(Postgresql, twin,
                     NewDataStore, domainName, stringName, langCode, content,
                     allowCreate) IN
        Both("CreateOrUpdateTranslation", a.err, b.err, a.db, b.db)

TwinGetDomainList ==
    Both("GetDomainList", GetDomainList(db), GetDomainList(twin), db, twin)

TwinGetFullDomain ==
    \E name \in DomainNames :
        Both("GetFullDomain", WithoutIds(GetFullDomain(db, name)),
             WithoutIds(GetFullDomain(twin, name)), db, twin)

(* ------------------------------------------------------------------ rows *)
\* what the rows say
HasDomain(d, domainName) == \E dom \in d.domain : dom.name = domainName

StringRows(d, domainName, stringName) ==
    {r \in d.string :
        /\ r.name = stringName
        /\ \E dom \in d.domain : dom.name = domainName /\ dom.id = r.domain_id}

HasLanguage(d, code) == \E l \in d.language : l.code = code

TranslationRows(d, domainName, stringName, code) ==
    {t \in d.translation :
        /\ \E r \in StringRows(d, domainName, stringName) : r.id = t.string_id
        /\ \E l \in d.language : l.code = code /\ l.id = t.language_id}

\* what a request names that the database does not hold
Missing(d, dName, sName, lang) ==
    {k \in {"domain", "string", "language", "translation"} :
        \/ k = "domain" /\ ~HasDomain(d, dName)
        \/ k = "string" /\ sName # "" /\ StringRows(d, dName, sName) = {}
        \/ k = "language" /\ lang # <<>> /\ ~HasLanguage(d, lang)
        \/ k = "translation" /\ lang # <<>>
              /\ TranslationRows(d, dName, sName, lang) = {}}

(* ---------------------------------------------------------------- server *)
StatusOK == 200
StatusBadRequest == 400
StatusNotFound == 404
StatusInternalServerError == 500

ResultOk == "{result:ok}"
NotFoundBody == "not found"
BadJson == "not JSON"
DomainJson == "{name, strings}"

\* the domain names of requests: h, and g which has no row
RequestDomains == {<<"h">>, <<"g">>}

\* server.checkHttpWithStatus: what it writes, and whether it wrote
checkHttpWithStatus(e, status) ==
    IF e # Nil
    THEN [hadError |-> TRUE, status |-> status,
          body |-> IF status = StatusNotFound /\ e = ErrNoRows
                   THEN NotFoundBody ELSE e]
    ELSE [hadError |-> FALSE, status |-> StatusOK, body |-> ResultOk]

\* server.checkHttp
checkHttp(e) ==
    checkHttpWithStatus(e, IF e = ErrNoRows THEN StatusNotFound
                           ELSE StatusInternalServerError)

\* what a handler leaves when it has called the DataStore and answered:
\* on success it stands at `export <- dName`
Answered(h, dName, r, record) ==
    LET a == checkHttp(r.err) IN
    /\ db' = r.db
    /\ WithinBounds(db')
    /\ ds' = r.ds
    /\ responses' = [status |-> a.status, body |-> a.body, handler |-> h]
    /\ sending' = IF a.hadError THEN sending
                  ELSE [sending EXCEPT ![h] = dName]
    /\ committed' = IF a.hadError THEN committed ELSE committed + 1
    /\ last' = record @@ [err |-> r.err, status |-> a.status,
                          body |-> a.body, handler |-> h]
    /\ UNCHANGED <<driver, files, export, worker, runs, twin, concurrent>>

\* the first handler that is not between its answer and its send
Free(h) ==
    /\ sending[h] = NoDomain
    /\ \A k \in Handlers : k < h => sending[k] # NoDomain
    /\ committed < MaxChanges

\* server.createOrUpdateTranslationHandler up to its answer; a body that
\* is not JSON is answered with StatusBadRequest before any call
createOrUpdateTranslationHandler ==
    \E h \in Handlers, dName \in RequestDomains, sName \in StringNames,
       lang \in Codes, content \in Contents \cup {BadJson},
       allowCreate \in BOOLEAN :
        /\ Free(h)
        /\ IF content = BadJson
           THEN /\ responses' = [status |-> StatusBadRequest,
                                   body |-> BadJson, handler |-> h]
                /\ last' = [op |-> "createOrUpdateTranslationHandler",
                            domain |-> dName, missing |-> {},
                            called |-> FALSE, err |-> BadJson,
                            status |-> StatusBadRequest, body |-> BadJson,
                            handler |-> h]
                /\ ds' = NewDataStore
                /\ UNCHANGED <<driver, db, files, export, sending, worker,
                               committed, runs, twin, concurrent>>
           ELSE Answered(h, dName,
                    CreateOrUpdateTranslationResult(driver, db, NewDataStore,
                        dName, sName, lang, content, allowCreate),
                    [op |-> "createOrUpdateTranslationHandler",
                     domain |-> dName,
                     missing |-> Missing(db, dName, sName, lang),
                     called |-> TRUE])

\* server.deleteStringHandler up to its answer
deleteStringHandler ==
    \E h \in Handlers, dName \in RequestDomains, sName \in StringNames :
        /\ Free(h)
        /\ Answered(h, dName,
               DeleteStringResult(db, NewDataStore, dName, sName),
               [op |-> "deleteStringHandler", domain |-> dName,
                missing |-> Missing(db, dName, sName, <<>>),
                called |-> TRUE])

\* server.deleteTranslationHandler up to its answer
deleteTranslationHandler ==
    \E h \in Handlers, dName \in RequestDomains, sName \in StringNames,
       lang \in Codes :
        /\ Free(h)
        /\ Answered(h, dName,
               DeleteTranslationResult(db, NewDataStore, dName, sName, lang),
               [op |-> "deleteTranslationHandler", domain |-> dName,
                missing |-> Missing(db, dName, sName, lang),
                called |-> TRUE])

\* server.getDomainHandler
getDomainHandler ==
    \E h \in Handlers, name \in RequestDomains :
        LET full == GetFullDomain(db, name)
            a == checkHttp(full.err) IN
        /\ Free(h)
        /\ responses' = [status |-> a.status,
                          body |-> IF a.hadError THEN a.body ELSE DomainJson,
                          handler |-> h]
        /\ last' = [op |-> "getDomainHandler", domain |-> name,
                    missing |-> Missing(db, name, "", <<>>),
                    called |-> TRUE, err |-> full.err, status |-> a.status,
                    body |-> IF a.hadError THEN a.body ELSE DomainJson,
                    strings |-> full.strings, handler |-> h]
        /\ ds' = NewDataStore
        /\ UNCHANGED <<driver, db, files, export, sending, worker,
                       committed, runs, twin, concurrent>>

\* a send that gives up when the channel is full
SendOrDrop(h) ==
    /\ sending[h] # NoDomain
    /\ export' = IF Len(export) < ExportCapacity
                 THEN Append(export, sending[h]) ELSE export
    /\ sending' = [sending EXCEPT ![h] = NoDomain]
    /\ UNCHANGED <<driver, db, ds, files, last, worker, responses,
                   committed, runs, twin, concurrent>>

\* `export <- dName`, the last statement of the three changing handlers:
\* it waits while the channel is full
Send(h) ==
    /\ sending[h] # NoDomain
    /\ Len(export) < ExportCapacity
    /\ export' = Append(export, sending[h])
    /\ sending' = [sending EXCEPT ![h] = NoDomain]
    /\ UNCHANGED <<driver, db, ds, files, last, worker, responses,
                   committed, runs, twin, concurrent>>

enqueue == \E h \in Handlers : Send(h)

\* `d := <-export` in the goroutine of Serve
workerReceive ==
    /\ worker = NoDomain
    /\ export # <<>>
    /\ worker' = Head(export)
    /\ export' = Tail(export)
    /\ UNCHANGED <<driver, db, ds, files, last, sending, responses,
                   committed, runs, twin, concurrent>>

\* a loop body that keeps the domain of a failed export for another try
ExportAndRetry(d, dir, name) ==
    LET r == ExportDomainResult(d, dir, name) IN
    [files |-> r.files, err |-> r.err, written |-> r.written,
     next |-> IF r.err # Nil THEN name ELSE NoDomain]

\* the body of the loop of the goroutine: ExportDomain, the error printed,
\* then the next turn of the loop
ExportAndLog(d, dir, name) ==
    LET r == ExportDomainResult(d, dir, name) IN
    [files |-> r.files, err |-> r.err, written |-> r.written,
     next |-> NoDomain]

workerExport ==
    /\ worker # NoDomain
    /\ runs < MaxChanges
    /\ ds' = NewDataStore
    /\ UNCHANGED <<driver, db, export, sending, responses, committed, twin, concurrent>>
    /\ LET r == ExportAndLog(db, files, worker) IN
       /\ worker' = r.next
       /\ runs' = IF r.next = NoDomain THEN runs + 1 ELSE runs
       /\ files' = r.files
       /\ last' = [op |-> "workerExport", domain |-> worker, err |-> r.err,
                   written |-> r.written, logged |-> r.err # Nil]

(* --------------------------------------------------------- specification *)
\* a trans-unit of a hand-written XLIFF file
Unit(name, content) ==
    [Hash |-> hash(name), TransUnitName |-> name, Source |-> name,
     TransUnitContent |-> content]

Document(lang, units) ==
    [wellFormed |-> TRUE, SourceLang |-> <<"en">>, TargetLang |-> lang,
     TransUnits |-> units]

\* the directory of XLIFF files the import starts from
InitialDir ==
    FileName(<<"h">>, <<"en">>) :> Document(<<"en">>, <<Unit("s", "x")>>)

\* the database the init-db command leaves: the version table, then every
\* up script
Migrated(drv) ==
    AdapterMigrateUp(drv, EnsureVersionTableExists(EmptyDb).db, 0).db

\* The translation store in service: the database is initialised, requests
\* and imports follow one another.
Init ==
    /\ driver \in Drivers
    /\ db = Migrated(driver)
    /\ ds = NewDataStore
    /\ files = InitialDir
    /\ last = [op |-> "none", err |-> Nil]
    /\ Idle
    /\ Quiet
    /\ twin = EmptyDb

Next ==
    \/ CreateLanguage
    \/ CreateOrUpdateTranslation
    \/ DeleteString
    \/ DeleteTranslation
    \/ ImportDir

Spec == Init /\ [][Next]_vars

\* The life of the schema: the commands init-db and remove-db on a database
\* that starts without any table, with imports and new languages between
\* them so that the tables hold rows.
InitMigrate ==
    /\ driver \in Drivers
    /\ db = EmptyDb
    /\ ds = NewDataStore
    /\ files = InitialDir
    /\ last = [op |-> "none", err |-> Nil]
    /\ Idle
    /\ Quiet
    /\ twin = EmptyDb

NextMigrate ==
    \/ MigrateUp
    \/ MigrateDown
    \/ CreateLanguage
    \/ ImportDir

SpecMigrate == InitMigrate /\ [][NextMigrate]_vars

\* Export and import of XLIFF files over an initialised database.
NextRoundTrip ==
    \/ ImportDir
    \/ CreateLanguage
    \/ CreateOrUpdateTranslation
    \/ ExportDomain

SpecRoundTrip == Init /\ [][NextRoundTrip]_vars

\* The export command between imports and changes of the store.
NextExport ==
    \/ ImportDir
    \/ CreateOrUpdateTranslation
    \/ DeleteString
    \/ DeleteTranslation
    \/ exportCommand

SpecExport == Init /\ [][NextExport]_vars

\* The same calls on a SQLite and on a PostgreSQL database, each migrated
\* to its latest version.
InitTwin ==
    /\ driver = Sqlite3
    /\ db = Migrated(Sqlite3)
    /\ twin = Migrated(Postgresql)
    /\ ds = NewDataStore
    /\ files = InitialDir
    /\ last = [op |-> "none", err |-> Nil]
    /\ Idle
    /\ Quiet

NextTwin ==
    \/ TwinGetLanguageList
    \/ TwinCreateLanguage
    \/ TwinImportDomain
    \/ TwinCreateOrUpdateTranslation
    \/ TwinGetDomainList
    \/ TwinGetFullDomain

SpecTwin == InitTwin /\ [][NextTwin]_vars

\* Hand-written directories: a good file of domain g, and for domain h a
\* file whose target-language differs from its name, a good file, a file
\* that is not XML, a file named without a language, a file in a language
\* the database does not have, and a file named without a language that is
\* not XML either.
Malformed == [wellFormed |-> FALSE]

HandWritten ==
    (FileName(<<"g">>, <<"en">>) :> Document(<<"en">>, <<Unit("s", "x")>>))
    @@ (FileName(<<"h">>, <<"de">>) :> Document(<<"en">>, <<Unit("s", "x")>>))
    @@ (FileName(<<"h">>, <<"en">>) :> Document(<<"en">>, <<Unit("t", "y")>>))
    @@ (FileName(<<"h">>, <<"nl">>) :> Malformed)
    @@ (<<"h", DOT, XliffExt>> :> Document(<<"en">>, <<Unit("s", "x")>>))
    @@ (<<"g", DOT, XliffExt>> :> Malformed)
    @@ (FileName(<<"g">>, <<"xx">>) :> Document(<<"xx">>, <<Unit("s", "y")>>))

Directories ==
    {[f \in names |-> HandWritten[f]] : names \in SUBSET DOMAIN HandWritten}

InitImport ==
    /\ driver \in Drivers
    /\ db = Migrated(driver)
    /\ ds = NewDataStore
    /\ files \in Directories
    /\ last = [op |-> "none", err |-> Nil]
    /\ Idle
    /\ Quiet
    /\ twin = EmptyDb

NextImport ==
    \/ ImportDir
    \/ CreateLanguage
    \/ DeleteString

SpecImport == InitImport /\ [][NextImport]_vars

\* The import command on a directory with the domain h in two languages,
\* while requests delete strings and the commands remove-db and init-db
\* are run.
TwoLanguages ==
    (FileName(<<"h">>, <<"de">>) :> Document(<<"de">>, <<Unit("s", "x")>>))
    @@ (FileName(<<"h">>, <<"en">>) :> Document(<<"en">>, <<Unit("s", "y")>>))

InitImporting ==
    /\ driver \in Drivers
    /\ db = Migrated(driver)
    /\ ds = NewDataStore
    /\ files \in {InitialDir, TwoLanguages}
    /\ last = [op |-> "none", err |-> Nil]
    /\ Idle
    /\ Quiet
    /\ twin = EmptyDb

NextImporting ==
    \/ importStart
    \/ importFile
    \/ importReturn
    \/ DeleteString
    \/ MigrateDown
    \/ MigrateUp

SpecImporting == InitImporting /\ [][NextImporting]_vars

\* A program that imports fragments one by one, on a DataStore it keeps or
\* on a new one, between changes of the store.
InitFragments ==
    /\ driver \in Drivers
    /\ db = Migrated(driver)
    /\ ds = NewDataStore
    /\ files \in {HandWritten, TwoLanguages}
    /\ last = [op |-> "none", err |-> Nil]
    /\ Idle
    /\ Quiet
    /\ twin = EmptyDb

NextFragments ==
    \/ ImportDomainCall
    \/ CreateOrUpdateTranslation
    \/ DeleteString

SpecFragments == InitFragments /\ [][NextFragments]_vars

\* The server: an initialised database that holds the domain h of the
\* first import, requests that read and change it, and the goroutine that
\* exports the domains the handlers send.
Served(drv) ==
    ImportDirResult(drv, Migrated(drv), NewDataStore, InitialDir).db

InitServe ==
    /\ driver \in Drivers
    /\ db = Served(driver)
    /\ ds = NewDataStore
    /\ files \in {InitialDir,
                  ExportDomainResult(Served(driver), InitialDir,
                                     <<"h">>).files}
    /\ last = [op |-> "none", err |-> Nil]
    /\ Idle
    /\ Quiet
    /\ twin = EmptyDb

NextServe ==
    \/ createOrUpdateTranslationHandler
    \/ deleteStringHandler
    \/ deleteTranslationHandler
    \/ getDomainHandler
    \/ enqueue
    \/ workerReceive
    \/ workerExport

SpecServe == InitServe /\ [][NextServe]_vars

(* ------------------------------------------- requests, call by call *)
\* Requests served at the same time (net/http runs each handler in a
\* goroutine of its own, handleWithDatastore gives each a DataStore of its
\* own on the shared *sqlx.DB): every statement a DataStore method sends is
\* a step, and the statements of other requests may come between two of
\* them.  No method opens a transaction.

\* the language of the translations the racing requests post, and the code
\* of the language they create
RaceLang == <<"de">>
RaceCode == <<"en", DOT, "us">>

\* the database may hold the rows the racing requests add
RaceWithinBounds(d) ==
    \A t \in {"string", "translation", "language"} :
        d.seq[t] <= Served(driver).seq[t] + MaxRacing

\* the request of client p goes on at `pc` with the fields `with`
Goto(p, pc, with) ==
    requests' = [requests EXCEPT ![p] = with @@ [@ EXCEPT !.pc = pc]]

\* the method returns e and the handler answers; after a translation written
\* with success it stands at `export <- dName`
Return(p, e) ==
    /\ requests' = [requests EXCEPT
                       ![p] = [pc |-> IF e = Nil /\ @.op = "translation"
                                      THEN "send" ELSE "idle",
                               served |-> @.served]]
    /\ last' = [op |-> "answer", client |-> p, err |-> e]

\* POST /domains/h/strings/{string}/translations/de arrives
postTranslation ==
    \E p \in Clients, sName \in StringNames, content \in Contents :
        /\ requests[p].pc = "idle"
        /\ requests[p].served < MaxServed
        /\ requests' = [requests EXCEPT ![p] =
              [pc |-> "getDomainId", served |-> @.served + 1,
               op |-> "translation", string |-> sName, content |-> content,
               domId |-> 0, stringId |-> 0, langId |-> 0, transId |-> 0]]
        /\ UNCHANGED <<driver, db, ds, files, last, server, twin, importer,
                       writers>>

\* POST /languages/en.us arrives
postLanguage ==
    \E p \in Clients :
        /\ requests[p].pc = "idle"
        /\ requests[p].served < MaxServed
        /\ requests' = [requests EXCEPT ![p] =
              [pc |-> "probe", served |-> @.served + 1, op |-> "language"]]
        /\ UNCHANGED <<driver, db, ds, files, last, server, twin, importer,
                       writers>>

\* CreateOrUpdateTranslation: ds.getDomainId(domainName)
callGetDomainId ==
    \E p \in Clients :
        /\ requests[p].pc = "getDomainId"
        /\ LET g == getDomainId(db, NewDataStore, <<"h">>) IN
           IF g.err # Nil
           THEN Return(p, g.err)
           ELSE Goto(p, "getStringId", [domId |-> g.id]) /\ UNCHANGED last
        /\ UNCHANGED <<driver, db, ds, files, server, twin, importer,
                       writers>>

\* createOrGetString: ds.getStringId(name, domainId)
callGetStringId ==
    \E p \in Clients :
        /\ requests[p].pc = "getStringId"
        /\ LET g == getStringId(db, requests[p].string, requests[p].domId) IN
           IF g.err = ErrNoRows
           THEN Goto(p, "createString", <<>>) /\ UNCHANGED last
           ELSE IF g.err # Nil
           THEN Return(p, g.err)
           ELSE Goto(p, "getLanguage", [stringId |-> g.id])
                /\ UNCHANGED last
        /\ UNCHANGED <<driver, db, ds, files, server, twin, importer,
                       writers>>

\* createOrGetString: ds.createString(name, domainId)
callCreateString ==
    \E p \in Clients :
        /\ requests[p].pc = "createString"
        /\ LET r == createString(driver, db, requests[p].string,
                                 requests[p].domId) IN
           /\ db' = r.db
           /\ RaceWithinBounds(db')
           /\ IF r.err # Nil
              THEN Return(p, r.err)
              ELSE Goto(p, "getLanguage", [stringId |-> r.id])
                   /\ UNCHANGED last
        /\ UNCHANGED <<driver, ds, files, server, twin, importer, writers>>

\* CreateOrUpdateTranslation: ds.getLanguage(langCode)
callGetLanguage ==
    \E p \in Clients :
        /\ requests[p].pc = "getLanguage"
        /\ LET g == getLanguage(db, RaceLang) IN
           IF g.err # Nil
           THEN Return(p, g.err)
           ELSE Goto(p, "getTranslationId", [langId |-> g.l.id])
                /\ UNCHANGED last
        /\ UNCHANGED <<driver, db, ds, files, server, twin, importer,
                       writers>>

\* CreateOrUpdateTranslation: ds.getTranslationId(t, lang.Id, stringId,
\* domId), with allowCreate = true
callGetTranslationId ==
    \E p \in Clients :
        /\ requests[p].pc = "getTranslationId"
        /\ LET g == getTranslationId(db, requests[p].langId,
                                     requests[p].stringId,
                                     requests[p].domId) IN
           IF g.err = ErrNoRows
           THEN Goto(p, "createTranslation", <<>>) /\ UNCHANGED last
           ELSE IF g.err = Nil
           THEN Goto(p, "updateTranslation", [transId |-> g.id])
                /\ UNCHANGED last
           ELSE Return(p, g.err)
        /\ UNCHANGED <<driver, db, ds, files, server, twin, importer,
                       writers>>

\* CreateOrUpdateTranslation: ds.createTranslation(t, lang.Id, stringId,
\* domId) and the return of its error
callCreateTranslation ==
    \E p \in Clients :
        /\ requests[p].pc = "createTranslation"
        /\ LET r == createTranslation(driver, db, requests[p].content,
                                      requests[p].langId,
                                      requests[p].stringId) IN
           /\ db' = r.db
           /\ RaceWithinBounds(db')
           /\ Return(p, r.err)
        /\ UNCHANGED <<driver, ds, files, server, twin, importer, writers>>

\* CreateOrUpdateTranslation: ds.updateTranslation(t, transId, lang.Id,
\* stringId, domId) and the return of its error
callUpdateTranslation ==
    \E p \in Clients :
        /\ requests[p].pc = "updateTranslation"
        /\ LET r == updateTranslation(db, requests[p].content,
                                      requests[p].transId,
                                      requests[p].langId,
                                      requests[p].stringId) IN
           /\ db' = r.db
           /\ Return(p, r.err)
        /\ UNCHANGED <<driver, ds, files, server, twin, importer, writers>>

\* `export <- dName` of a request that was answered with success
callSend ==
    \E p \in Clients :
        /\ requests[p].pc = "send"
        /\ Len(export) < ExportCapacity
        /\ export' = Append(export, <<"h">>)
        /\ Goto(p, "idle", <<>>)
        /\ UNCHANGED <<driver, db, ds, files, last, sending, worker,
                       responses, committed, runs, twin, importer, writers>>

\* CreateLanguage: ds.getLanguage(code)
callProbeLanguage ==
    \E p \in Clients :
        /\ requests[p].pc = "probe"
        /\ LET g == getLanguage(db, RaceCode) IN
           IF g.err # Nil /\ g.err # ErrLanguageMissing
           THEN Return(p, g.err)
           ELSE IF g.err = Nil
           THEN Return(p, ErrAlreadyExists)
           ELSE Goto(p, "insert", <<>>) /\ UNCHANGED last
        /\ UNCHANGED <<driver, db, ds, files, server, twin, importer,
                       writers>>

\* CreateLanguage: ds.insert(CreateLanguageQuery, code, name)
callInsertLanguage ==
    \E p \in Clients :
        /\ requests[p].pc = "insert"
        /\ LET r == insert(driver, db, "language",
                           [id |-> 0, name |-> "New", code |-> RaceCode]) IN
           /\ db' = r.db
           /\ RaceWithinBounds(db')
           /\ Return(p, r.err)
        /\ UNCHANGED <<driver, ds, files, server, twin, importer, writers>>

\* Requests that create strings, translations and languages, served at the
\* same time on the database the first import left; the export goroutine
\* takes the names the requests send.
InitRace ==
    /\ driver \in Drivers
    /\ db = Served(driver)
    /\ ds = NewDataStore
    /\ files = InitialDir
    /\ last = [op |-> "none", err |-> Nil]
    /\ Idle
    /\ Quiet
    /\ twin = EmptyDb

NextRace ==
    \/ postTranslation
    \/ postLanguage
    \/ callGetDomainId
    \/ callGetStringId
    \/ callCreateString
    \/ callGetLanguage
    \/ callGetTranslationId
    \/ callCreateTranslation
    \/ callUpdateTranslation
    \/ callSend
    \/ callProbeLanguage
    \/ callInsertLanguage
    \/ workerReceive
    \/ workerExport

SpecRace == InitRace /\ [][NextRace]_vars

\* when the export goroutine can run the export of the name it has taken
workerExportEnabled == worker # NoDomain /\ runs < MaxChanges

(* ------------------------------------------------ exports, file by file *)
\* Exports that run at the same time: the goroutine of Serve runs
\* ExportDomain for the names it receives, a request to
\* POST /domains/{name}/export runs it in the goroutine of its handler.
\* xliff.Export creates, writes and closes one file after the other; the
\* steps of another export may come between two of them.  Nothing in the
\* program makes one export wait for another.

\* a file that os.Create has truncated, or that holds the bytes of two
\* writers
Truncated == Malformed

\* ExportDomain up to the loop that writes the files: the xliffs built, or
\* the error
ExportDomainBegin(d, name) ==
    LET full == GetFullDomain(d, name)
        l == getLanguage(d, <<"en">>) IN
    IF full.err # Nil THEN [xliffs |-> <<>>, err |-> full.err]
    ELSE IF l.err # Nil THEN [xliffs |-> <<>>, err |-> l.err]
    ELSE [xliffs |-> Export(full, LanguageKey(l.l.id, l.l.code)),
          err |-> Nil]

\* the exporters other than e that have the file f open
Overlapping(e, f) == {o \in Exporters \ {e} : writers[o].open = f}

\* the handler of POST /domains/{name}/export calls ds.ExportDomain; with
\* an error, or without any xliff to write, it answers at once
exportDomainHandler ==
    \E name \in RequestDomains :
        LET b == ExportDomainBegin(db, name) IN
        /\ writers[ExportRequest].pc = "idle"
        /\ IF b.err # Nil \/ DOMAIN b.xliffs = {}
           THEN /\ last' = [op |-> "export", by |-> ExportRequest,
                            err |-> b.err]
                /\ UNCHANGED writers
           ELSE /\ writers' = [writers EXCEPT ![ExportRequest] =
                                  [pc |-> "create", open |-> NoFile,
                                   xliffs |-> b.xliffs]]
                /\ UNCHANGED last
        /\ UNCHANGED <<driver, db, ds, files, server, twin, requests,
                       importer>>

\* the goroutine of Serve calls ds.ExportDomain for the name it received;
\* with an error, or without any xliff to write, it takes the next turn of
\* its loop
workerExportDomain ==
    LET b == ExportDomainBegin(db, worker) IN
    /\ worker # NoDomain
    /\ runs < MaxChanges
    /\ writers[ExportWorker].pc = "idle"
    /\ IF b.err # Nil \/ DOMAIN b.xliffs = {}
       THEN /\ last' = [op |-> "export", by |-> ExportWorker, err |-> b.err]
            /\ worker' = NoDomain
            /\ runs' = runs + 1
            /\ UNCHANGED writers
       ELSE /\ writers' = [writers EXCEPT ![ExportWorker] =
                              [pc |-> "create", open |-> NoFile,
                               xliffs |-> b.xliffs]]
            /\ UNCHANGED <<last, worker, runs>>
    /\ UNCHANGED <<driver, db, ds, files, export, sending, responses,
                   committed, twin, requests, importer>>

\* os.Create of the file of one of the xliffs still to write (the order of
\* a range over a map is not fixed): the file exists and is empty
osCreate ==
    \E e \in Exporters :
        /\ writers[e].pc = "create"
        /\ \E f \in DOMAIN writers[e].xliffs :
              /\ files' = (f :> Truncated) @@ files
              /\ writers' = [writers EXCEPT ![e].pc = "write",
                                            ![e].open = f]
        /\ UNCHANGED <<driver, db, ds, last, server, twin, requests,
                       importer>>

\* f.WriteString and enc.Encode: the file holds the document, or, when
\* another export has the file open, the document or a mix of the bytes
\* of the two
encode ==
    \E e \in Exporters :
        /\ writers[e].pc = "write"
        /\ LET f == writers[e].open IN
           \E doc \in {writers[e].xliffs[f]}
                      \cup (IF Overlapping(e, f) = {} THEN {}
                            ELSE {Truncated}) :
               files' = (f :> doc) @@ files
        /\ writers' = [writers EXCEPT ![e].pc = "close"]
        /\ UNCHANGED <<driver, db, ds, last, server, twin, requests,
                       importer>>

\* f.Close, then the next xliff; after the last one Export returns nil:
\* the handler answers, the goroutine takes the next turn of its loop
fClose ==
    \E e \in Exporters :
        LET f == writers[e].open
            rest == [g \in DOMAIN writers[e].xliffs \ {f} |->
                        writers[e].xliffs[g]] IN
        /\ writers[e].pc = "close"
        /\ IF DOMAIN rest = {}
           THEN /\ writers' = [writers EXCEPT ![e] = NotExporting]
                /\ last' = [op |-> "export", by |-> e, err |-> Nil]
                /\ IF e = ExportWorker
                   THEN worker' = NoDomain /\ runs' = runs + 1
                   ELSE UNCHANGED <<worker, runs>>
           ELSE /\ writers' = [writers EXCEPT ![e] =
                                  [pc |-> "create", open |-> NoFile,
                                   xliffs |-> rest]]
                /\ UNCHANGED <<last, worker, runs>>
        /\ UNCHANGED <<driver, db, ds, files, export, sending, responses,
                       committed, twin, requests, importer>>

\* The server with its exports taken file by file: requests that change
\* translations and send the domain to the goroutine, requests for an
\* export, and the goroutine.
NextWriters ==
    \/ createOrUpdateTranslationHandler
    \/ enqueue
    \/ workerReceive
    \/ exportDomainHandler
    \/ workerExportDomain
    \/ osCreate
    \/ encode
    \/ fClose

SpecWriters == InitServe /\ [][NextWriters]_vars

\* The server with its goroutines scheduled: the export goroutine takes its
\* steps (weak fairness of workerReceive and of workerExport, the second
\* written out with the condition under which the step is enabled), and a
\* handler that waits at `export <- dName` sends once the channel has room
\* again and again (the runtime wakes the senders of a channel in the
\* order in which they came).
SpecServeFair ==
    /\ SpecServe
    /\ WF_vars(workerReceive)
    /\ ([]<>(~workerExportEnabled) \/ []<><<workerExport>>_vars)
    /\ \A h \in Handlers : SF_vars(Send(h))

(* ------------------------------------------------------------ properties *)
\* the string entries GetFullDomain lists for a domain
Entries(d, domainName) == Range(GetFullDomain(d, domainName).strings)

\* C1: when CreateOrUpdateTranslation with allowCreate = true returns no
\* error, GetFullDomain of that domain succeeds and lists the string with,
\* for the language of the call, the content of the call.
C1_CreateThenRead ==
    (/\ last.op = "CreateOrUpdateTranslation"
     /\ last.allowCreate
     /\ last.err = Nil)
    => LET full == GetFullDomain(db, last.domain) IN
       /\ full.err = Nil
       /\ \E i \in DOMAIN full.strings :
            /\ full.strings[i].name = last.string
            /\ \E k \in DOMAIN full.strings[i].translations :
                 /\ k.Code = last.lang
                 /\ full.strings[i].translations[k] = last.content

\* a create-mode call has just made a new string with a translation in a
\* language that a request created, next to an older string
C1_Witness ==
    /\ last.op = "CreateOrUpdateTranslation"
    /\ last.allowCreate
    /\ last.err = Nil
    /\ last.string = "t"
    /\ last.lang = <<"en", DOT, "us">>
    /\ Cardinality(Entries(db, last.domain)) = 2

C3_CreateLanguageTwice ==
    LET rows == {l \in db.language : l.code = last.code} IN
    /\ (last.op = "CreateLanguage" /\ last.err = Nil)
       => rows = {[id |-> last.id, name |-> "New", code |-> last.code]}
    /\ (/\ last.op = "CreateLanguage"
        /\ last.prev.op = "CreateLanguage"
        /\ last.prev.err = Nil
        /\ last.prevCode = last.code)
       => last.err = ErrAlreadyExists /\ Cardinality(rows) = 1

\* the same new code has just been sent twice in a row
C3_Witness ==
    /\ last.op = "CreateLanguage"
    /\ last.prev.op = "CreateLanguage"
    /\ last.prev.err = Nil
    /\ last.prevCode = last.code
    /\ last.err = ErrAlreadyExists

\* C4: a DeleteString that returns no error removes the string's row and
\* every translation of it, so that no translation is left without its
\* string; GetFullDomain of the domain then lists what it listed before
\* without the entry of that string, the other entries unchanged.
C4_DeleteString ==
    [][(last'.op = "DeleteString" /\ last'.err = Nil)
       => LET gone == {r.id : r \in StringRows(db, last'.domain,
                                              last'.string)} IN
          /\ gone # {}
          /\ db'.string = {r \in db.string : r.id \notin gone}
          /\ db'.translation =
                {t \in db.translation : t.string_id \notin gone}
          /\ \A t \in db'.translation :
                \E r \in db'.string : r.id = t.string_id
          /\ Entries(db', last'.domain) =
                {e \in Entries(db, last'.domain) : e.name # last'.string}
          /\ \A e \in Entries(db', last'.domain) : e.name # last'.string
      ]_vars

\* a string with a translation has just been deleted and another string of
\* the domain is still listed
C4_Witness ==
    /\ last.op = "DeleteString"
    /\ last.err = Nil
    /\ last.removed > 0
    /\ Entries(db, last.domain) # {}

\* C5: a DeleteTranslation that returns no error removes the translation
\* rows of that string in that language and nothing else: the tables
\* domain, language and string, and every other translation row, are as
\* before.
C5_DeleteTranslation ==
    [][(last'.op = "DeleteTranslation" /\ last'.err = Nil)
       => LET gone == TranslationRows(db, last'.domain, last'.string,
                                     last'.lang) IN
          /\ Cardinality(gone) = 1
          /\ db'.translation = db.translation \ gone
          /\ db'.string = db.string
          /\ db'.domain = db.domain
          /\ db'.language = db.language
      ]_vars

\* a translation has just been deleted from a string that keeps its
\* translation in another language
C5_Witness ==
    /\ last.op = "DeleteTranslation"
    /\ last.err = Nil
    /\ TranslationRows(db, last.domain, last.string, last.lang) = {}
    /\ \E code \in Codes \ {last.lang} :
          TranslationRows(db, last.domain, last.string, code) # {}

\* the trans-units of the file that Export names after a domain and a
\* language code, when the directory holds it
UnitsOfFile(dir, domainName, code) ==
    IF FileName(domainName, code) \in DOMAIN dir
    THEN Range(dir[FileName(domainName, code)].TransUnits)
    ELSE {}

\* C6: when a successful ExportDomain is followed by ImportDir of the
\* directory, the import returns no error and the database holds, for
\* every domain name and every language code, each string and content of
\* the file written for them.
C6_RoundTrip ==
    (/\ last.op = "ImportDir"
     /\ last.prev.op = "ExportDomain"
     /\ last.prev.err = Nil)
    => /\ last.err = Nil
       /\ last.count = Cardinality(DOMAIN files)
       /\ \A domainName \in DomainNames :
          \A code \in {l.code : l \in db.language} :
          \A u \in UnitsOfFile(files, domainName, code) :
             \E t \in TranslationRows(db, domainName, u.TransUnitName,
                                      code) :
                t.content = u.TransUnitContent

(* ------------------------------------------------- migration properties *)
RECURSIVE UpSteps(_, _)
\* what a MigrateUp from version v to version n does, in order
UpSteps(v, n) ==
    IF v >= n THEN <<>>
    ELSE << <<"exec", v + 1>>, <<"version", v + 1>> >> \o UpSteps(v + 1, n)

RECURSIVE DownSteps(_)
\* what a MigrateDown from version v does, in order
DownSteps(v) ==
    IF v <= 0 THEN <<>>
    ELSE << <<"exec", v>>, <<"version", v - 1>> >> \o DownSteps(v - 1)

\* C7: a MigrateUp that follows a MigrateUp without error executes no
\* script, returns no error and the version the first one returned, and
\* leaves the database, rows and version included, as it was.
C7_MigrateUpTwice ==
    [][(/\ last'.op = "MigrateUp"
        /\ last.op = "MigrateUp"
        /\ last.err = Nil)
       => /\ last'.err = Nil
          /\ last'.trace = <<>>
          /\ last'.version = last.version
          /\ db' = db]_vars

\* init-db has just run a second time in a row, on tables that hold rows
C7_Witness ==
    /\ last.op = "MigrateUp"
    /\ last.prev.op = "MigrateUp"
    /\ last.prev.err = Nil
    /\ last.err = Nil
    /\ last.trace = <<>>
    /\ Cardinality(db.language) >= Len(SeedLanguages(driver))

\* C8: a MigrateUp without error from stored version V has executed the
\* scripts V+1 .. N once each in increasing order, each followed at once
\* by the write of its version, and returns N, the version then stored.
C8_MigrateUpSteps ==
    (last.op = "MigrateUp" /\ last.err = Nil)
    => /\ last.startVer \in 0..UpLen(driver)
       /\ last.trace = UpSteps(last.startVer, UpLen(driver))
       /\ last.version = UpLen(driver)
       /\ version(db) = UpLen(driver)

\* a MigrateUp has just gone on from a version in the middle, left by a
\* migration that had failed
C8_Witness ==
    /\ last.op = "MigrateUp"
    /\ last.err = Nil
    /\ last.startVer > 0
    /\ last.trace # <<>>

\* C9: a MigrateDown without error from stored version V has executed the
\* down scripts V, V-1, .., 1 in that order and none above V, each followed
\* by the write of the version below it, and returns 0, the version then
\* stored; a MigrateUp right after it, when no script execution fails,
\* returns the latest version, which is then stored.
C9_MigrateDownSteps ==
    /\ (last.op = "MigrateDown" /\ last.err = Nil)
       => /\ last.trace = DownSteps(last.startVer)
          /\ last.version = 0
          /\ version(db) = 0
    /\ (/\ last.op = "MigrateUp"
        /\ last.prev.op = "MigrateDown"
        /\ last.prev.err = Nil
        /\ last.err # ErrExec)
       => /\ last.err = Nil
          /\ last.version = UpLen(driver)
          /\ version(db) = UpLen(driver)
          /\ db.tables

\* remove-db from the latest version of the SQLite schema, then init-db
C9_Witness ==
    /\ last.op = "MigrateUp"
    /\ last.prev.op = "MigrateDown"
    /\ last.prev.err = Nil
    /\ last.err = Nil
    /\ last.trace = UpSteps(0, 2)

\* C10: a migration that returns an error returns with it the version that
\* is stored in schema_migrations.
C10_FailedMigrationVersion ==
    (last.op \in {"MigrateUp", "MigrateDown"} /\ last.err # Nil)
    => last.version = version(db)


(* ---------------------------------------------------- import properties *)
\* the translation rows of a domain in a language: what the file named
\* after the two writes
RowsOfFile(d, domainName, code) ==
    {t \in d.translation :
        /\ \E r \in d.string :
              /\ r.id = t.string_id
              /\ \E dom \in d.domain :
                    dom.name = domainName /\ dom.id = r.domain_id
        /\ \E l \in d.language : l.code = code /\ l.id = t.language_id}

\* the file decodes and the database holds each of its trans-units
Imported(d, dir, f) ==
    LET x == NewFromFile(dir, f) IN
    /\ x.err = Nil
    /\ \A i \in DOMAIN x.xliff.TransUnits :
          \E t \in TranslationRows(d, x.xliff.name,
                                   x.xliff.TransUnits[i].TransUnitName,
                                   x.xliff.TargetLang) :
             t.content = x.xliff.TransUnits[i].TransUnitContent

\* the directory cut down to the first n files of its listing
FirstFiles(dir, n) ==
    [f \in {Listing(DOMAIN dir)[i] : i \in 1..n} |-> dir[f]]

\* C11: ImportDir takes the files in listing order; it returns (k, err)
\* where the first k files of the listing are imported and notified, and
\* with an error k is the number of files before the failing one, the
\* error is the one of that file, the rows of the first k files and the
\* rows the failing file wrote are kept, and no later file is touched.
C11_ImportDirAbort ==
    [][last'.op = "ImportDir" =>
        LET listing == Listing(DOMAIN files)
            k == last'.count IN
        /\ k <= Len(listing)
        /\ last'.notified = SubSeq(listing, 1, k)
        /\ \A i \in 1..k : Imported(db', files, listing[i])
        /\ last'.err = Nil => k = Len(listing)
        /\ last'.err # Nil =>
            /\ k < Len(listing)
            /\ LET x == NewFromFile(files, listing[k + 1]) IN
               IF x.err # Nil THEN last'.err = x.err
               ELSE /\ last'.err = ErrLanguageMissing
                    /\ ~HasLanguage(db', x.xliff.TargetLang)
                    /\ HasDomain(db', x.xliff.name)
                    /\ StringRows(db', x.xliff.name,
                                  x.xliff.TransUnits[1].TransUnitName) # {}
            /\ \A i \in (k + 2)..Len(listing) :
                  LET y == infoFromFilename(listing[i]) IN
                  y.err = Nil =>
                     RowsOfFile(db', y.name, y.expectLang)
                        = RowsOfFile(db, y.name, y.expectLang)
            /\ db' = ImportDirResult(driver, db, NewDataStore,
                                     FirstFiles(files, k + 1)).db
    ]_vars

\* the import stopped at the second file of three: the domain of the first
\* file is stored, the domain of the third is not
C11_Witness ==
    /\ last.op = "ImportDir"
    /\ last.count = 1
    /\ last.err = ErrTargetLang
    /\ Len(Listing(DOMAIN files)) >= 3
    /\ FileName(<<"h">>, <<"en">>) \in DOMAIN files
    /\ HasDomain(db, <<"g">>)
    /\ ~HasDomain(db, <<"h">>)



\* the files of a directory that are XML documents named D.L.xliff, D and
\* L without a dot
NamedFiles(dir) ==
    {f \in DOMAIN dir :
        /\ dir[f].wellFormed
        /\ Len(f) = 5
        /\ f[1] # DOT /\ f[2] = DOT /\ f[3] # DOT /\ f[4] = DOT
        /\ f[5] = XliffExt}

\* C12: decoding a file named D.L.xliff whose document has target-language
\* T succeeds exactly when T = L; it then gives a fragment of domain D whose
\* trans-units all carry the language L; when T differs from L it gives an
\* error and no fragment, and an import of the file leaves the database as
\* it was.
C12_DecodeFileName ==
    \A f \in NamedFiles(files) :
        LET x == NewFromFile(files, f)
            D == <<f[1]>>
            L == <<f[3]>>
            T == files[f].TargetLang IN
        /\ (x.err = Nil) <=> (T = L)
        /\ x.err = Nil =>
            /\ x.xliff.name = D
            /\ x.xliff.TransUnits # <<>>
            /\ \A i \in DOMAIN x.xliff.TransUnits :
                  x.xliff.TransUnits[i].language = L
        /\ x.err # Nil =>
            /\ x.xliff = <<>>
            /\ ImportDirResult(driver, db, NewDataStore, f :> files[f]).db = db
            /\ ImportDirResult(driver, db, NewDataStore, f :> files[f]).count
                  = 0

\* an import has met the file h.de.xliff whose target-language is en as the
\* first file of the directory, next to a file that decodes
C12_Witness ==
    /\ last.op = "ImportDir"
    /\ last.err = ErrTargetLang
    /\ last.count = 0
    /\ DOMAIN files = {FileName(<<"h">>, <<"de">>), FileName(<<"h">>, <<"en">>)}
    /\ NewFromFile(files, FileName(<<"h">>, <<"en">>)).err = Nil
    /\ db.domain = {}



(* ---------------------------------------------------- export properties *)
\* the content stored for a string of a domain in a language, as a set
ContentOf(d, domainName, stringName, code) ==
    {t.content : t \in TranslationRows(d, domainName, stringName, code)}

\* the names of the strings of a domain that have a row
StringsOf(d, domainName) ==
    {r.name : r \in {q \in d.string :
                        \E dom \in d.domain :
                           dom.name = domainName /\ dom.id = q.domain_id}}

\* the trans-units of a document for a string name
UnitsFor(doc, stringName) ==
    {i \in DOMAIN doc.TransUnits :
        doc.TransUnits[i].TransUnitName = stringName}

CodesOf(d, domainName) ==
    {l.code : l \in {k \in d.language :
                        \E stringName \in StringsOf(d, domainName) :
                           ContentOf(d, domainName, stringName, k.code) # {}}}

\* C14: a successful export of a domain writes one file named
\* domainName.code.xliff for each language in which a string of the domain
\* has a translation and no other file; the file of a language holds one
\* trans-unit for a string that has a translation in the language and none
\* for a string that has not.
C14_ExportFiles ==
    (last.op = "ExportDomain" /\ last.err = Nil) =>
    /\ last.written
          = {FileName(last.domain, code) : code \in CodesOf(db, last.domain)}
    /\ Cardinality(last.written) = Cardinality(CodesOf(db, last.domain))
    /\ \A code \in CodesOf(db, last.domain) :
       \A stringName \in StringsOf(db, last.domain) :
          Cardinality(UnitsFor(files[FileName(last.domain, code)], stringName))
             = IF ContentOf(db, last.domain, stringName, code) # {}
               THEN 1 ELSE 0

\* an export has written two files for a domain of two strings, each with
\* a translation in one language only
C14_Witness ==
    /\ last.op = "ExportDomain"
    /\ last.err = Nil
    /\ Cardinality(last.written) = 2
    /\ StringsOf(db, last.domain) = {"s", "t"}
    /\ \A stringName \in {"s", "t"} :
          \E code \in CodesOf(db, last.domain) :
             ContentOf(db, last.domain, stringName, code) = {}



(* ---------------------------------------------------- server properties *)
ApiHandlers ==
    {"createOrUpdateTranslationHandler", "deleteStringHandler",
     "deleteTranslationHandler", "getDomainHandler"}

\* C15: a request whose DataStore call fails because the domain, the
\* string, the translation or the language it names does not exist is
\* answered with StatusNotFound and the body "not found".
C15_NotFoundIs404 ==
    (/\ last.op \in ApiHandlers
     /\ last.called
     /\ last.err # Nil
     /\ last.missing # {})
    => /\ last.status = StatusNotFound
       /\ last.body = NotFoundBody



ChangingHandlers ==
    {"createOrUpdateTranslationHandler", "deleteStringHandler",
     "deleteTranslationHandler"}

\* C16: a changing handler sends the domain name to the export channel
\* only when the change succeeded, and in a later step than the one that
\* wrote the success answer; a handler whose change failed sends nothing;
\* an export of the goroutine that fails is logged, changes no answer and
\* is not tried again.
C16_EnqueueAfterSuccess ==
    [][/\ \A h \in Handlers :
            (sending'[h] # sending[h] /\ sending'[h] # NoDomain) =>
               /\ last'.op \in ChangingHandlers
               /\ last'.err = Nil
               /\ last'.domain = sending'[h]
               /\ responses' = [status |-> StatusOK, body |-> ResultOk,
                                handler |-> h]
               /\ export' = export
       /\ (export' # export /\ Len(export') >= Len(export)) =>
            \E h \in Handlers :
               /\ sending[h] # NoDomain
               /\ export' = Append(export, sending[h])
               /\ sending' = [sending EXCEPT ![h] = NoDomain]
               /\ responses' = responses
       /\ (/\ last' # last
           /\ last'.op \in ChangingHandlers
           /\ last'.err # Nil) =>
            /\ export' = export
            /\ sending' = sending
            /\ responses'.status # StatusOK
       /\ (last' # last /\ last'.op = "workerExport") =>
            /\ responses' = responses
            /\ sending' = sending
            /\ export' = export
            /\ worker' = NoDomain
            /\ last'.logged = (last'.err # Nil)
      ]_vars

\* the goroutine has failed to export the domain that a successful delete
\* sent, the answer of the delete is as it was written and nothing is left
\* to export
C16_Witness ==
    /\ last.op = "workerExport"
    /\ last.err # Nil
    /\ last.logged
    /\ responses.status = StatusOK
    /\ committed = 1
    /\ runs = 1
    /\ export = <<>>
    /\ worker = NoDomain
    /\ \A h \in Handlers : sending[h] = NoDomain



\* the domain names on their way to an export: with the handlers that
\* wait to send, in the channel, and in the hand of the goroutine
OnTheWay ==
    Cardinality({h \in Handlers : sending[h] # NoDomain})
    + Len(export)
    + (IF worker # NoDomain THEN 1 ELSE 0)

\* C17: every change answered with success is followed by an export run of
\* the goroutine for its domain: each name is with its handler, in the
\* channel or with the goroutine until its run, no run comes before its
\* change, and the n-th change leads to the n-th run, also when the channel
\* is full and when an earlier run failed.
C17_EveryChangeExported ==
    /\ [](/\ committed = runs + OnTheWay
          /\ \A h \in Handlers : sending[h] \in {NoDomain, <<"h">>}
          /\ \A i \in DOMAIN export : export[i] = <<"h">>
          /\ worker \in {NoDomain, <<"h">>})
    /\ \A n \in 1..MaxChanges : (committed >= n) ~> (runs >= n)

\* a handler has answered and waits at the full channel while the
\* goroutine has not yet taken the name of the change before
C17_Witness ==
    /\ Len(export) = ExportCapacity
    /\ \E h \in Handlers : sending[h] # NoDomain
    /\ worker = NoDomain
    /\ committed = 2
    /\ runs = 0



\* the contents the file of a domain and a language gives for a string
FileContentOf(dir, domainName, stringName, code) ==
    {u.TransUnitContent :
        u \in {v \in UnitsOfFile(dir, domainName, code) :
                  v.TransUnitName = stringName}}

\* C18: when changes were made through the handlers and no name is on its
\* way to an export any more, the files of the changed domain hold the
\* strings and translations of the database and nothing else: a file
\* exists for a language exactly when the domain has a translation in it,
\* and its trans-units are the translations stored.
C18_FilesMirrorDb ==
    (committed > 0 /\ OnTheWay = 0) =>
    \A code \in Codes \cup {l.code : l \in db.language} :
       /\ FileName(<<"h">>, code) \in DOMAIN files
             <=> code \in CodesOf(db, <<"h">>)
       /\ \A stringName \in StringNames :
             FileContentOf(files, <<"h">>, stringName, code)
                = ContentOf(db, <<"h">>, stringName, code)



(* -------------------------------------------- export command properties *)
\* C19: the export command exports every domain GetDomainList gives: it
\* ends without error, and for each domain of the database the full
\* domain was fetched and its files written, whatever the database holds.
C19_ExportAllCompletes ==
    last.op = "export" =>
       /\ last.err = Nil
       /\ Range(last.domains) = {dom.name : dom \in db.domain}
       /\ last.exported = Cardinality(db.domain)



(* ------------------------------------------------ back-end properties *)
TwinOps ==
    {"GetLanguageList", "CreateLanguage", "ImportDomain",
     "CreateOrUpdateTranslation", "GetDomainList", "GetFullDomain"}

\* C20: after MigrateUp to the latest version on a SQLite and on a
\* PostgreSQL database, each call of a sequence of calls made on both
\* returns the same result and the same error on both, generated ids
\* left out.
C20_SameOnBothBackEnds ==
    last.op \in TwinOps => last.sqlite3 = last.postgresql

(* ------------------------------------------------- uniqueness properties *)
\* the keys the schema describes as unique, each held by one row at most
UniqueDomains(d) ==
    \A a, b \in d.domain : a.name = b.name => a = b

UniqueStrings(d) ==
    \A a, b \in d.string :
        (a.domain_id = b.domain_id /\ a.name = b.name) => a = b

UniqueTranslations(d) ==
    \A a, b \in d.translation :
        (a.string_id = b.string_id /\ a.language_id = b.language_id) => a = b

\* C21: after any sequence of ImportDomain, CreateOrUpdateTranslation,
\* CreateLanguage, DeleteString and DeleteTranslation calls made one after
\* the other on a migrated database, on both back-ends, no two domain rows
\* share a name, no two string rows share (domain_id, name) and no two
\* translation rows share (string_id, language_id).
C21_UniqueRows ==
    /\ UniqueDomains(db)
    /\ UniqueStrings(db)
    /\ UniqueTranslations(db)

\* on SQLite, whose schema has no UNIQUE on string and translation, a call
\* has just written to a string and a translation that had their rows
\* before the call, next to another string of the domain
C21_Witness ==
    /\ driver = Sqlite3
    /\ last.op = "CreateOrUpdateTranslation"
    /\ last.allowCreate
    /\ last.err = Nil
    /\ db.seq.string = 2
    /\ db.seq.translation = 2
    /\ Cardinality(db.string) = 2
    /\ Cardinality(db.translation) = 2
    /\ \E t \in TranslationRows(db, last.domain, last.string, last.lang) :
         t.id = 1 /\ t.content = "y"

(* ------------------------------------------------ file name properties *)
\* the file ImportDir stopped at; <<>> when it went through the listing
StoppedAt ==
    LET listing == Listing(DOMAIN files) IN
    IF last.count < Len(listing) THEN listing[last.count + 1] ELSE <<>>

\* C22: NewFromFile checks the file name before it parses the XML: for a
\* file whose base name does not split on "." into exactly three parts the
\* result is the file name format error, whatever the file holds, also
\* when the content is not well-formed XML.
C22_FileNameBeforeXml ==
    (/\ last.op = "ImportDir"
     /\ StoppedAt # <<>>
     /\ infoFromFilename(StoppedAt).err # Nil)
    => last.err = ErrFilename

(* --------------------------------------------------- domain properties *)
\* C23: CreateOrUpdateTranslation never creates a domain: for a domain
\* name without row it returns sql.ErrNoRows, with allowCreate = true too,
\* and writes nothing; the domain rows are the same before and after every
\* CreateOrUpdateTranslation call; a step that adds a domain row is an
\* import.
C23_NeverCreatesDomain ==
    [][/\ last'.op = "CreateOrUpdateTranslation"
          => /\ db'.domain = db.domain
             /\ ~HasDomain(db, last'.domain)
                  => (last'.err = ErrNoRows /\ db' = db)
       /\ db'.domain # db.domain => last'.op = "ImportDir"]_vars

\* a create-mode call on the domain h has just failed with sql.ErrNoRows
\* on a database that holds a language made by a request and no domain,
\* string or translation row
C23_Witness ==
    /\ last.op = "CreateOrUpdateTranslation"
    /\ last.allowCreate
    /\ last.err = ErrNoRows
    /\ db.domain = {}
    /\ db.string = {}
    /\ db.translation = {}
    /\ HasLanguage(db, last.lang)
    /\ last.lang = <<"en", DOT, "us">>

(* ---------------------------------------------- notification properties *)
RECURSIVE StepsOf(_, _)
\* what the loop of ImportDir does for the first n files of a listing when
\* each of them is imported: decode, import, notify, file after file
StepsOf(listing, n) ==
    IF n = 0 THEN <<>>
    ELSE StepsOf(listing, n - 1)
         \o << <<"NewFromFile", listing[n]>>, <<"ImportDomain", listing[n]>>,
               <<"notify", listing[n]>> >>

\* C24: ImportDir sends one notification per imported file, with the base
\* name of the file, after the ImportDomain of the file and before the next
\* file is decoded: the notifications come in processing order, a file that
\* failed or was not reached has none, and their number is the count that
\* ImportDir returns, with and without an error.
C24_NotifyEachImported ==
    last.op = "ImportDir" =>
        LET listing == Listing(DOMAIN files)
            k == last.count
            sends == SelectSeq(last.steps, LAMBDA e : e[1] = "notify")
            rest == SubSeq(last.steps, 3 * k + 1, Len(last.steps)) IN
        /\ Len(last.notified) = k
        /\ Len(sends) = k
        /\ \A i \in 1..k : /\ last.notified[i] = listing[i]
                           /\ sends[i] = <<"notify", listing[i]>>
        /\ SubSeq(last.steps, 1, 3 * k) = StepsOf(listing, k)
        /\ IF last.err = Nil THEN rest = <<>> /\ k = Len(listing)
           ELSE /\ k < Len(listing)
                /\ rest \in {<< <<"NewFromFile", listing[k + 1]>> >>,
                             << <<"NewFromFile", listing[k + 1]>>,
                                <<"ImportDomain", listing[k + 1]>> >>}

\* an import has sent the notification of the first file and then stopped
\* in the ImportDomain of the second file; a third file was not reached
C24_Witness ==
    /\ last.op = "ImportDir"
    /\ last.err = ErrLanguageMissing
    /\ last.notified = <<FileName(<<"g">>, <<"en">>)>>
    /\ last.steps[Len(last.steps)]
          = <<"ImportDomain", FileName(<<"g">>, <<"xx">>)>>
    /\ FileName(<<"h">>, <<"en">>) \in DOMAIN files
    /\ ~HasDomain(db, <<"h">>)

(* ------------------------------------------------------ error properties *)
\* C26: every error goes to the caller at once: no core operation returns
\* a nil error after one of its SQL or file system steps failed.  Here for
\* ImportDir and the ImportDomain calls it makes: when a step of the import
\* failed, the import returns an error.
C26_ErrorsPropagate ==
    (last.op = "importReturn" /\ last.failed # <<>>) => last.err # Nil

(* ------------------------------------------------------ cache properties *)
\* every entry of the two caches of a DataStore names a row of the
\* database with that key and that id
CacheSound(d, c) ==
    /\ \A name \in DOMAIN c.domainCache :
          \E r \in d.domain : r.name = name /\ r.id = c.domainCache[name]
    /\ \A key \in DOMAIN c.stringCache :
          \E r \in d.string :
             /\ r.id = c.stringCache[key]
             /\ r.name = key.Name
             /\ r.domain_id = key.DomainId

SameRows(a, b) ==
    /\ a.domain = b.domain
    /\ a.language = b.language
    /\ a.string = b.string
    /\ a.translation = b.translation

\* C27: a CreateOrUpdateTranslation call that returns an error leaves the
\* database as it was, with allowCreate = false and with allowCreate = true:
\* a create-mode call that fails leaves no new string row behind.
C27_FailedCallWritesNothing ==
    [][(last'.op = "CreateOrUpdateTranslation" /\ last'.err # Nil)
          => SameRows(db', db)]_vars

(* ------------------------------------------------ idempotence properties *)
\* C28: ImportDomain is idempotent: importing the same fragment twice in a
\* row, on the same DataStore or on a fresh one, leaves the rows and
\* contents that the first import left; the second import inserts no row,
\* rewrites translations with the content they have and returns what the
\* first returned.
C28_ImportDomainTwice ==
    [][(last'.op = "ImportDomain" /\ last'.again)
          => /\ db' = db
             /\ last'.err = last.err
             /\ last'.dropped = <<>>]_vars

\* a fragment with a translation has just been imported a second time on
\* the DataStore of the first import, which has the string in its cache,
\* into a database that holds two domains
C28_Witness ==
    /\ last.op = "ImportDomain"
    /\ last.again
    /\ ~last.fresh
    /\ last.err = Nil
    /\ ds.stringCache # <<>>
    /\ Cardinality(db.domain) = 2
    /\ \E i \in DOMAIN last.fragment.TransUnits :
         TranslationRows(db, last.fragment.name,
                         last.fragment.TransUnits[i].TransUnitName,
                         last.fragment.TargetLang) # {}

(* ------------------------------------------------------- race properties *)
UniqueLanguages(d) ==
    \A a, b \in d.language : a.code = b.code => a = b

\* C25: under any interleaving of requests served at the same time, on
\* either back-end, two create requests for the same new string, the same
\* new translation of a string into a language or the same new language
\* code may both miss the lookup and both send the insert, but one insert
\* wins: every state has one string row per (domain_id, name) at most, one
\* translation row per (string_id, language_id) and one language row per
\* code.
C25_OneInsertWins ==
    /\ UniqueStrings(db)
    /\ UniqueTranslations(db)
    /\ UniqueLanguages(db)


\* C30: no two exports write the same XLIFF file at the same time: the
\* export goroutine, the handler of POST /domains/{name}/export and the
\* handlers running beside them never have the same file
\* {domain}.{lang}.xliff of the export directory open together.
C30_OneWriterPerFile ==
    \A a, b \in Exporters :
        (a # b /\ writers[a].open # NoFile)
            => writers[a].open # writers[b].open

====
